---- MODULE Spec2Model ----
(***************************************************************************)
(* Streaming completion orchestrator of localchat (src-tauri).             *)
(*                                                                         *)
(* The model follows commands.rs (send_message, regenerate_last_response,  *)
(* stop_generation), api.rs (the SSE event -> delta pipeline of            *)
(* OpenAICompatibleProvider::send_chat_stream_request), state.rs (the      *)
(* storage mutex and the cancelled_streams map) and storage.rs             *)
(* (save_message, get_conversation_messages).                              *)
(*                                                                         *)
(* Strings are sequences of characters.  UUIDs are natural numbers; the    *)
(* text form of a UUID is a record (see to_string / parse_str).  An event  *)
(* recorded in events[t] is one call of app_handle.emit by task t.         *)
(***************************************************************************)
EXTENDS Integers, Sequences, FiniteSets, TLC

(***************************************************************************)
(* Bounds.                                                                 *)
(***************************************************************************)
\* total number of SSE events the remote endpoints deliver in one run
MaxFrames == 3

\* rows of the messages table when regenerate_last_response is invoked
MaxRows == 3

\* the task slots: each is one invocation of send_message or of
\* regenerate_last_response together with the background task it spawns
Tasks == {"t1", "t2"}

(***************************************************************************)
(* UUIDs and their text form.                                              *)
(***************************************************************************)
\* the conversation the commands are invoked on
ConvUuid == 100
\* a UUID that no Uuid::new_v4() call of the run returns
UnknownUuid == 200
NilUuid == 0

to_string(u) == [valid |-> TRUE, n |-> u]
BadIdStr == [valid |-> FALSE, n |-> 1]
\* a JSON field that is not part of an event payload
Absent == [valid |-> FALSE, n |-> 0]

\* Uuid::parse_str : Ok(uuid) for a well-formed text, Err otherwise
parse_str(s) == IF s.valid THEN [ok |-> TRUE, uuid |-> s.n]
                ELSE [ok |-> FALSE, uuid |-> NilUuid]

(***************************************************************************)
(* JSON payloads of SSE events.  A payload (event.data) is a sequence of   *)
(* tokens: whitespace, the literal [DONE], one JSON value, or text that is *)
(* not JSON.  A JSON value is an object described by the keys it has.      *)
(***************************************************************************)
NoChoice == << >>
NoJson == [has |-> {}, type |-> "", choices |-> NoChoice]

Ws == [t |-> "ws", v |-> NoJson]
DoneTok == [t |-> "done", v |-> NoJson]
JunkTok == [t |-> "junk", v |-> NoJson]
JsonTok(v) == [t |-> "json", v |-> v]

Choice(hasIndex, hasDelta, hasContent, content) ==
    [hasIndex |-> hasIndex, hasDelta |-> hasDelta,
     hasContent |-> hasContent, content |-> content]

ChunkKeys == {"id", "object", "created", "model", "choices"}

\* {id, object, created, model, choices:[{index, delta:{content}}]}
FullChunk(c) == [has |-> ChunkKeys, type |-> "",
                 choices |-> << Choice(TRUE, TRUE, TRUE, c) >>]
\* {choices:[{delta:{content}}]}
BareChunk(c) == [has |-> {"choices"}, type |-> "",
                 choices |-> << Choice(FALSE, TRUE, TRUE, c) >>]
\* {id, ..., choices:[{index, delta:{role}}]}
RoleOnlyChunk == [has |-> ChunkKeys, type |-> "",
                  choices |-> << Choice(TRUE, TRUE, FALSE, << >>) >>]
\* {id, ..., choices:[]}
EmptyChoicesChunk == [has |-> ChunkKeys, type |-> "", choices |-> NoChoice]
\* {"type": ty}
TypedFrame(ty) == [has |-> {"type"}, type |-> ty, choices |-> NoChoice]
\* {} : JSON without choices and without type
OtherJson == [has |-> {}, type |-> "", choices |-> NoChoice]

\* the content fragments the remote may send
Fragments == { << >>, <<"a">>, <<"b">> }

\* an item of the eventsource stream: Ok(Event{data}) or Err (transport or
\* framing error)
Event(data) == [ok |-> TRUE, data |-> data]
DecodeError == [ok |-> FALSE, data |-> << >>]
NoEvent == [ok |-> FALSE, data |-> << Ws >>]

Frames ==
    { Event(<< DoneTok >>), Event(<< Ws, DoneTok, Ws >>),
      Event(<< JsonTok(RoleOnlyChunk) >>), Event(<< JsonTok(EmptyChoicesChunk) >>),
      Event(<< JsonTok(TypedFrame("ping")) >>), Event(<< JsonTok(TypedFrame("other")) >>),
      Event(<< JsonTok(OtherJson) >>), Event(<< JsonTok(BareChunk(<<"a">>)) >>),
      Event(<< JunkTok >>), DecodeError }
    \cup { Event(<< JsonTok(FullChunk(c)) >>) : c \in Fragments }

RECURSIVE TrimStart(_)
TrimStart(s) == IF s # << >> /\ Head(s) = Ws THEN TrimStart(Tail(s)) ELSE s

RECURSIVE TrimEnd(_)
TrimEnd(s) == IF s # << >> /\ s[Len(s)] = Ws
              THEN TrimEnd(SubSeq(s, 1, Len(s) - 1)) ELSE s

\* str::trim
Trim(s) == TrimEnd(TrimStart(s))

\* serde_json::from_str::<serde_json::Value> : one JSON value, nothing else
ParseValue(data) ==
    IF Len(data) = 1 /\ data[1].t = "json"
    THEN [ok |-> TRUE, v |-> data[1].v]
    ELSE [ok |-> FALSE, v |-> NoJson]

\* serde_json::from_str::<OpenAIStreamChunk> : every field of the derive
\* that is not an Option must be present, in the chunk and in every choice
ParseChunk(data) ==
    LET p == ParseValue(data) IN
    IF /\ p.ok
       /\ ChunkKeys \subseteq p.v.has
       /\ \A i \in 1..Len(p.v.choices) :
              p.v.choices[i].hasIndex /\ p.v.choices[i].hasDelta
    THEN [ok |-> TRUE, v |-> p.v]
    ELSE [ok |-> FALSE, v |-> NoJson]

\* Result<Option<String>> of the map closure, and Option<Result<String>> of
\* the filter_map closure
OkSome(c) == [tag |-> "content", content |-> c]
OkNone == [tag |-> "none", content |-> << >>]
Err(cause) == [tag |-> cause, content |-> << >>]

\* faulty variant of DeltaContent: a chunk without content yields the empty
\* string (unwrap_or_default) instead of None
DeltaContent_EmptyString(chunk) ==
    IF Len(chunk.choices) = 0 THEN OkSome(<< >>)
    ELSE IF chunk.choices[1].hasContent THEN OkSome(chunk.choices[1].content)
    ELSE OkSome(<< >>)

\* chunk.choices.get(0).and_then(|choice| choice.delta.content.clone())
DeltaContent(chunk) ==
    IF Len(chunk.choices) = 0 THEN OkNone
    ELSE IF chunk.choices[1].hasContent THEN OkSome(chunk.choices[1].content)
    ELSE OkNone

\* faulty variant of MapEvent: the payload is compared with [DONE] and
\* parsed without being trimmed
MapEvent_NoTrim(ev) ==
    IF ~ev.ok THEN Err("decode")
    ELSE LET event_data == ev.data IN
         IF event_data = << DoneTok >> THEN OkNone
         ELSE IF ParseChunk(event_data).ok
              THEN DeltaContent(ParseChunk(event_data).v)
              ELSE IF ParseValue(event_data).ok
                   THEN IF /\ "type" \in ParseValue(event_data).v.has
                           /\ ParseValue(event_data).v.type = "ping"
                        THEN OkNone
                        ELSE Err("not_chunk")
                   ELSE Err("not_json")

\* faulty variant of MapEvent: JSON that is not a chunk is an error, a ping
\* included
MapEvent_PingIsError(ev) ==
    IF ~ev.ok THEN Err("decode")
    ELSE LET event_data == Trim(ev.data) IN
         IF event_data = << DoneTok >> THEN OkNone
         ELSE IF ParseChunk(event_data).ok
              THEN DeltaContent(ParseChunk(event_data).v)
              ELSE IF ParseValue(event_data).ok
                   THEN Err("not_chunk")
                   ELSE Err("not_json")

\* faulty variant of MapEvent: every JSON object with a type is skipped
MapEvent_AnyTypeSkipped(ev) ==
    IF ~ev.ok THEN Err("decode")
    ELSE LET event_data == Trim(ev.data) IN
         IF event_data = << DoneTok >> THEN OkNone
         ELSE IF ParseChunk(event_data).ok
              THEN DeltaContent(ParseChunk(event_data).v)
              ELSE IF ParseValue(event_data).ok
                   THEN IF "type" \in ParseValue(event_data).v.has
                        THEN OkNone
                        ELSE Err("not_chunk")
                   ELSE Err("not_json")

\* the closure given to event_stream.map
MapEvent(ev) ==
    IF ~ev.ok THEN Err("decode")
    ELSE LET event_data == Trim(ev.data) IN
         IF event_data = << DoneTok >> THEN OkNone
         ELSE IF ParseChunk(event_data).ok
              THEN DeltaContent(ParseChunk(event_data).v)
              ELSE IF ParseValue(event_data).ok
                   THEN IF /\ "type" \in ParseValue(event_data).v.has
                           /\ ParseValue(event_data).v.type = "ping"
                        THEN OkNone
                        ELSE Err("not_chunk")
                   ELSE Err("not_json")

\* the closure given to filter_map: TRUE when the item is passed on
Passes(result) == result.tag # "none"

NoItem == [tag |-> "noitem", content |-> << >>]

(***************************************************************************)
(* Messages and the messages table.                                        *)
(***************************************************************************)
Msg(id, conv, role, content) ==
    [id |-> id, conversation_id |-> conv, role |-> role, content |-> content]

NoMsg == Msg(NilUuid, NilUuid, "", << >>)

\* the rows the conversation has when the application starts
InitialRows == << Msg(1, ConvUuid, "user", <<"q">>),
                  Msg(2, ConvUuid, "assistant", <<"r">>) >>

\* another conversation of the database
OtherConvUuid == 300

\* the messages tables regenerate_last_response is checked on: up to
\* MaxRows rows, each a user or an assistant message of the conversation
\* or an assistant message of another conversation, with ids 1, 2, ...
RowKinds == { [conv |-> ConvUuid, role |-> "user"],
              [conv |-> ConvUuid, role |-> "assistant"],
              [conv |-> OtherConvUuid, role |-> "assistant"] }
RowsOfKinds(ks) ==
    [i \in 1..Len(ks) |->
        Msg(i, ks[i].conv, ks[i].role,
            IF ks[i].role = "user" THEN <<"q">> ELSE <<"r">>)]
StoredHistories ==
    { RowsOfKinds(ks) : ks \in UNION { [1..n -> RowKinds] : n \in 0..MaxRows } }

\* the texts a caller passes as conversation_id
ConversationIdInputs == { to_string(ConvUuid), BadIdStr }
\* the texts a caller passes as content
ContentInputs == { <<"q">> }

\* what one call of StorageManager::save_message does: both statements run,
\* the INSERT fails, or the INSERT runs and the UPDATE of the conversation
\* fails
SaveOutcomes == {"ok", "insert_failed", "update_failed"}
save_message(rows, message, o) ==
    IF o = "insert_failed" THEN rows ELSE Append(rows, message)

\* StorageManager::get_conversation_messages
get_conversation_messages(rows, conv) ==
    SelectSeq(rows, LAMBDA m : m.conversation_id = conv)

\* StorageManager::delete_message (called by regenerate_last_response)
delete_message(rows, id, o) ==
    IF o = "ok" THEN SelectSeq(rows, LAMBDA m : m.id # id) ELSE rows

\* faulty variant of rposition_assistant: position, the first assistant
\* message instead of the last
rposition_assistant_First(msgs) ==
    LET S == { i \in 1..Len(msgs) : msgs[i].role = "assistant" } IN
    IF S = {} THEN 0 ELSE CHOOSE i \in S : \A j \in S : i <= j

\* messages.iter().rposition(|m| m.role == "assistant"); 0 stands for None
rposition_assistant(msgs) ==
    LET S == { i \in 1..Len(msgs) : msgs[i].role = "assistant" } IN
    IF S = {} THEN 0 ELSE CHOOSE i \in S : \A j \in S : j <= i

(***************************************************************************)
(* State.                                                                  *)
(***************************************************************************)
VARIABLES
    pc,                 \* position of the command / background task of a slot
    kind,               \* "none", "send" or "regen"
    ret,                \* what the command returned: "none", "ok", "err"
    conversation_id,    \* the command's conversation_id argument
    user_message,       \* send_message: the Message built from content
    messages,           \* history loaded from storage (history_for_api)
    api_messages,       \* the list handed to send_chat_stream_request
    assistant_message_id,
    full_content,
    frame,              \* the eventsource item the pipeline is mapping
    item,               \* delta_result: the item taken from delta_stream
    doneSeen,           \* a [DONE] event was delivered on the task's stream
    pingSeen,           \* a {"type":"ping"} event was delivered on the stream
    otherSeen,          \* a {"type":"other"} event was delivered on the stream
    outcome,            \* how the stream loop was left
    cause,              \* the Err item that ended the loop, "none" if none did
    produced,           \* the content items delta_stream has yielded, in order
    remarked,           \* stop_generation found the task's id already marked
    saved,              \* result of the save of the assistant message
    events,             \* the emit calls made by the task, in order
    storage,            \* rows of the messages table, in insertion order
    lock,               \* holder of AppState.storage (tokio Mutex)
    cancelled_streams,  \* keys of AppState.cancelled_streams
    nextId,             \* the next value of Uuid::new_v4()
    sent                \* number of SSE events delivered so far

taskVars == << pc, kind, ret, conversation_id, user_message, messages,
               api_messages, assistant_message_id, full_content, frame,
               item, doneSeen, pingSeen, otherSeen, outcome, cause, produced, remarked, saved, events >>
vars == << taskVars, storage, lock, cancelled_streams, nextId, sent >>

\* AppState::new and no command invoked yet
NoCommandYet ==
    /\ pc = [t \in Tasks |-> "idle"]
    /\ kind = [t \in Tasks |-> "none"]
    /\ ret = [t \in Tasks |-> "none"]
    /\ conversation_id = [t \in Tasks |-> Absent]
    /\ user_message = [t \in Tasks |-> NoMsg]
    /\ messages = [t \in Tasks |-> << >>]
    /\ api_messages = [t \in Tasks |-> << >>]
    /\ assistant_message_id = [t \in Tasks |-> NilUuid]
    /\ full_content = [t \in Tasks |-> << >>]
    /\ frame = [t \in Tasks |-> NoEvent]
    /\ item = [t \in Tasks |-> NoItem]
    /\ doneSeen = [t \in Tasks |-> FALSE]
    /\ pingSeen = [t \in Tasks |-> FALSE]
    /\ otherSeen = [t \in Tasks |-> FALSE]
    /\ outcome = [t \in Tasks |-> "pending"]
    /\ cause = [t \in Tasks |-> "none"]
    /\ produced = [t \in Tasks |-> << >>]
    /\ remarked = [t \in Tasks |-> FALSE]
    /\ saved = [t \in Tasks |-> "none"]
    /\ events = [t \in Tasks |-> << >>]
    /\ lock = "free"
    /\ cancelled_streams = {}
    /\ sent = 0

Init ==
    /\ NoCommandYet
    /\ storage = InitialRows
    /\ nextId = Len(InitialRows) + 1

conv_uuid(t) == parse_str(conversation_id[t]).uuid

\* faulty variant of Acquire: the guard is handed out although another
\* slot holds it
Acquire_Barging(t, from, to) ==
    /\ pc[t] = from
    /\ lock' = t
    /\ pc' = [pc EXCEPT ![t] = to]

\* state.storage.lock().await
Acquire(t, from, to) ==
    /\ pc[t] = from
    /\ lock = "free"
    /\ lock' = t
    /\ pc' = [pc EXCEPT ![t] = to]

StartedEvent(t, id) ==
    [name |-> "assistant_stream_started",
     conversationId |-> conversation_id[t],
     messageId |-> to_string(id), delta |-> << >>]
ChunkEvent(t, delta) ==
    [name |-> "assistant_message_chunk",
     conversationId |-> conversation_id[t],
     messageId |-> to_string(assistant_message_id[t]), delta |-> delta]
\* faulty variant of FinishedEvent: the payload carries the conversation id
FinishedEvent_ConvId(t) ==
    [name |-> "assistant_stream_finished",
     conversationId |-> Absent,
     messageId |-> conversation_id[t], delta |-> << >>]

FinishedEvent(t) ==
    [name |-> "assistant_stream_finished",
     conversationId |-> Absent,
     messageId |-> to_string(assistant_message_id[t]), delta |-> << >>]

SystemPrompt(t) == Msg(NilUuid, conv_uuid(t), "system", <<"s">>)
AssistantMessage(t) ==
    Msg(assistant_message_id[t], conv_uuid(t), "assistant", full_content[t])

(***************************************************************************)
(* send_message: the command.                                              *)
(***************************************************************************)
SendMessage(t, cid, content) ==
    /\ pc[t] = "idle"
    /\ kind' = [kind EXCEPT ![t] = "send"]
    /\ conversation_id' = [conversation_id EXCEPT ![t] = cid]
    /\ IF ~parse_str(cid).ok
       THEN /\ ret' = [ret EXCEPT ![t] = "err"]
            /\ pc' = [pc EXCEPT ![t] = "rejected"]
            /\ UNCHANGED << user_message, nextId >>
       ELSE /\ user_message' = [user_message EXCEPT ![t] =
                   Msg(nextId, parse_str(cid).uuid, "user", content)]
            /\ nextId' = nextId + 1
            /\ pc' = [pc EXCEPT ![t] = "cmd_lock"]
            /\ UNCHANGED ret
    /\ UNCHANGED << cause, produced, remarked, messages, api_messages, assistant_message_id,
                    full_content, frame, item, doneSeen, pingSeen, otherSeen, outcome, saved,
                    events, storage, lock, cancelled_streams, sent >>

SendLockUser(t) ==
    /\ Acquire(t, "cmd_lock", "cmd_save")
    /\ UNCHANGED << kind, cause, produced, remarked, ret, conversation_id, user_message, messages,
                    api_messages, assistant_message_id, full_content, frame,
                    item, doneSeen, pingSeen, otherSeen, outcome, saved, events, storage,
                    cancelled_streams, nextId, sent >>

\* faulty variant of SendSaveUser: the command awaits the task it spawned
\* instead of returning Ok(user_message_clone)
SendSaveUser_AwaitsTask(t, o) ==
    /\ pc[t] = "cmd_save"
    /\ lock = t
    /\ storage' = save_message(storage, user_message[t], o)
    /\ lock' = "free"
    /\ IF o = "ok"
       THEN /\ pc' = [pc EXCEPT ![t] = "hist_lock"]
            /\ UNCHANGED ret
       ELSE /\ ret' = [ret EXCEPT ![t] = "err"]
            /\ pc' = [pc EXCEPT ![t] = "failed"]
    /\ UNCHANGED << kind, cause, produced, remarked, conversation_id, user_message, messages,
                    api_messages, assistant_message_id, full_content, frame,
                    item, doneSeen, pingSeen, otherSeen, outcome, saved, events,
                    cancelled_streams, nextId, sent >>

\* faulty variant of SendSaveUser: the background task is spawned although
\* the save failed
SendSaveUser_SpawnsAnyway(t, o) ==
    /\ pc[t] = "cmd_save"
    /\ lock = t
    /\ storage' = save_message(storage, user_message[t], o)
    /\ lock' = "free"
    /\ ret' = [ret EXCEPT ![t] = IF o = "ok" THEN "ok" ELSE "err"]
    /\ pc' = [pc EXCEPT ![t] = "hist_lock"]
    /\ UNCHANGED << kind, cause, produced, remarked, conversation_id, user_message, messages,
                    api_messages, assistant_message_id, full_content, frame,
                    item, doneSeen, pingSeen, otherSeen, outcome, saved, events,
                    cancelled_streams, nextId, sent >>

\* save of the user message; on success the background task is spawned and
\* the command returns Ok(user_message_clone)
SendSaveUser(t, o) ==
    /\ pc[t] = "cmd_save"
    /\ lock = t
    /\ storage' = save_message(storage, user_message[t], o)
    /\ lock' = "free"
    /\ IF o = "ok"
       THEN /\ ret' = [ret EXCEPT ![t] = "ok"]
            /\ pc' = [pc EXCEPT ![t] = "hist_lock"]
       ELSE /\ ret' = [ret EXCEPT ![t] = "err"]
            /\ pc' = [pc EXCEPT ![t] = "failed"]
    /\ UNCHANGED << kind, cause, produced, remarked, conversation_id, user_message, messages,
                    api_messages, assistant_message_id, full_content, frame,
                    item, doneSeen, pingSeen, otherSeen, outcome, saved, events,
                    cancelled_streams, nextId, sent >>

(***************************************************************************)
(* send_message: the background task up to the stream request.             *)
(***************************************************************************)
SendLockHistory(t) ==
    /\ Acquire(t, "hist_lock", "bg_hist")
    /\ UNCHANGED << kind, cause, produced, remarked, ret, conversation_id, user_message, messages,
                    api_messages, assistant_message_id, full_content, frame,
                    item, doneSeen, pingSeen, otherSeen, outcome, saved, events, storage,
                    cancelled_streams, nextId, sent >>

SendLoadHistory(t, o) ==
    /\ pc[t] = "bg_hist"
    /\ lock = t
    /\ lock' = "free"
    /\ IF o = "ok"
       THEN /\ messages' = [messages EXCEPT ![t] =
                   get_conversation_messages(storage, conv_uuid(t))]
            /\ pc' = [pc EXCEPT ![t] = "cfg_lock"]
       ELSE /\ pc' = [pc EXCEPT ![t] = "exited"]
            /\ UNCHANGED messages
    /\ UNCHANGED << kind, cause, produced, remarked, ret, conversation_id, user_message, api_messages,
                    assistant_message_id, full_content, frame, item,
                    doneSeen, pingSeen, otherSeen, outcome, saved, events, storage,
                    cancelled_streams, nextId, sent >>

SendLockConfig(t) ==
    /\ Acquire(t, "cfg_lock", "bg_cfg")
    /\ UNCHANGED << kind, cause, produced, remarked, ret, conversation_id, user_message, messages,
                    api_messages, assistant_message_id, full_content, frame,
                    item, doneSeen, pingSeen, otherSeen, outcome, saved, events, storage,
                    cancelled_streams, nextId, sent >>

\* get_conversation and get_model_config: "ok", or the conversation row is
\* missing ("none"), or one of the two queries fails ("err")
ConfigOutcomes == {"ok", "none", "err"}

SendLoadConfig(t, o) ==
    /\ pc[t] = "bg_cfg"
    /\ lock = t
    /\ lock' = "free"
    /\ pc' = [pc EXCEPT ![t] = IF o = "ok" THEN "bg_key" ELSE "exited"]
    /\ UNCHANGED << kind, cause, produced, remarked, ret, conversation_id, user_message, messages,
                    api_messages, assistant_message_id, full_content, frame,
                    item, doneSeen, pingSeen, otherSeen, outcome, saved, events, storage,
                    cancelled_streams, nextId, sent >>

(***************************************************************************)
(* regenerate_last_response: the command.                                  *)
(***************************************************************************)
RegenerateLastResponse(t, cid) ==
    /\ pc[t] = "idle"
    /\ kind' = [kind EXCEPT ![t] = "regen"]
    /\ conversation_id' = [conversation_id EXCEPT ![t] = cid]
    /\ IF ~parse_str(cid).ok
       THEN /\ ret' = [ret EXCEPT ![t] = "err"]
            /\ pc' = [pc EXCEPT ![t] = "rejected"]
       ELSE /\ pc' = [pc EXCEPT ![t] = "rg_lock"]
            /\ UNCHANGED ret
    /\ UNCHANGED << cause, produced, remarked, user_message, messages, api_messages,
                    assistant_message_id, full_content, frame, item,
                    doneSeen, pingSeen, otherSeen, outcome, saved, events, storage, lock,
                    cancelled_streams, nextId, sent >>

RegenLock(t) ==
    /\ Acquire(t, "rg_lock", "rg_load")
    /\ UNCHANGED << kind, cause, produced, remarked, ret, conversation_id, user_message, messages,
                    api_messages, assistant_message_id, full_content, frame,
                    item, doneSeen, pingSeen, otherSeen, outcome, saved, events, storage,
                    cancelled_streams, nextId, sent >>

\* faulty variant of RegenLoadAndDelete: the early error return leaves the
\* guard locked
RegenLoadAndDelete_LeaksOnError(t, o, del) ==
    /\ pc[t] = "rg_load"
    /\ lock = t
    /\ LET msgs == get_conversation_messages(storage, conv_uuid(t))
           last_assistant_idx == rposition_assistant(msgs)
       IN  IF o # "ok" \/ last_assistant_idx = 0
           THEN /\ ret' = [ret EXCEPT ![t] = "err"]
                /\ pc' = [pc EXCEPT ![t] = "failed"]
                /\ UNCHANGED << messages, storage, lock >>
           ELSE /\ messages' = [messages EXCEPT ![t] =
                       SubSeq(msgs, 1, last_assistant_idx - 1)]
                /\ storage' = delete_message(storage,
                                  msgs[last_assistant_idx].id, del)
                /\ pc' = [pc EXCEPT ![t] = "rg_cfg"]
                /\ UNCHANGED << ret, lock >>
    /\ UNCHANGED << kind, cause, produced, remarked, conversation_id,
                    user_message, api_messages, assistant_message_id,
                    full_content, frame, item, doneSeen, pingSeen, otherSeen,
                    outcome, saved, events, cancelled_streams, nextId, sent >>

\* get_conversation_messages, rposition, history_for_api and delete_message,
\* all under the lock taken at the top of the command
RegenLoadAndDelete(t, o, del) ==
    /\ pc[t] = "rg_load"
    /\ lock = t
    /\ LET msgs == get_conversation_messages(storage, conv_uuid(t))
           last_assistant_idx == rposition_assistant(msgs)
       IN  IF o # "ok" \/ last_assistant_idx = 0
           THEN /\ ret' = [ret EXCEPT ![t] = "err"]
                /\ pc' = [pc EXCEPT ![t] = "failed"]
                /\ lock' = "free"
                /\ UNCHANGED << messages, storage >>
           ELSE /\ messages' = [messages EXCEPT ![t] =
                       SubSeq(msgs, 1, last_assistant_idx - 1)]
                /\ storage' = delete_message(storage,
                                  msgs[last_assistant_idx].id, del)
                /\ pc' = [pc EXCEPT ![t] = "rg_cfg"]
                /\ UNCHANGED << ret, lock >>
    /\ UNCHANGED << kind, cause, produced, remarked, conversation_id, user_message, api_messages,
                    assistant_message_id, full_content, frame, item,
                    doneSeen, pingSeen, otherSeen, outcome, saved, events, cancelled_streams,
                    nextId, sent >>

\* faulty variant of RegenLoadConfig: the guard is not dropped before the
\* task is spawned
RegenLoadConfig_KeepsLock(t, o) ==
    /\ pc[t] = "rg_cfg"
    /\ lock = t
    /\ IF o = "ok"
       THEN /\ ret' = [ret EXCEPT ![t] = "ok"]
            /\ pc' = [pc EXCEPT ![t] = "bg_key"]
            /\ UNCHANGED lock
       ELSE /\ ret' = [ret EXCEPT ![t] = "err"]
            /\ pc' = [pc EXCEPT ![t] = "failed"]
            /\ lock' = "free"
    /\ UNCHANGED << kind, cause, produced, remarked, conversation_id,
                    user_message, messages, api_messages,
                    assistant_message_id, full_content, frame, item, doneSeen,
                    pingSeen, otherSeen, outcome, saved, events, storage,
                    cancelled_streams, nextId, sent >>

\* get_conversation, get_model_config, drop(storage), spawn, Ok(())
RegenLoadConfig(t, o) ==
    /\ pc[t] = "rg_cfg"
    /\ lock = t
    /\ lock' = "free"
    /\ IF o = "ok"
       THEN /\ ret' = [ret EXCEPT ![t] = "ok"]
            /\ pc' = [pc EXCEPT ![t] = "bg_key"]
       ELSE /\ ret' = [ret EXCEPT ![t] = "err"]
            /\ pc' = [pc EXCEPT ![t] = "failed"]
    /\ UNCHANGED << kind, cause, produced, remarked, conversation_id, user_message, messages,
                    api_messages, assistant_message_id, full_content, frame,
                    item, doneSeen, pingSeen, otherSeen, outcome, saved, events, storage,
                    cancelled_streams, nextId, sent >>

(***************************************************************************)
(* The background task of both commands: credential and stream request.    *)
(***************************************************************************)
\* faulty variant of GetApiKey: the system prompt is put after the history
GetApiKey_SystemLast(t, ok) ==
    /\ pc[t] = "bg_key"
    /\ IF ok
       THEN /\ api_messages' = [api_messages EXCEPT ![t] =
                   Append(messages[t], SystemPrompt(t))]
            /\ pc' = [pc EXCEPT ![t] = "bg_request"]
       ELSE /\ pc' = [pc EXCEPT ![t] = "exited"]
            /\ UNCHANGED api_messages
    /\ UNCHANGED << kind, cause, produced, remarked, ret, conversation_id,
                    user_message, messages, assistant_message_id,
                    full_content, frame, item, doneSeen, pingSeen, otherSeen,
                    outcome, saved, events, storage, lock, cancelled_streams,
                    nextId, sent >>

\* config::get_api_key, then api_messages = [system_prompt] ++ history
GetApiKey(t, ok) ==
    /\ pc[t] = "bg_key"
    /\ IF ok
       THEN /\ api_messages' = [api_messages EXCEPT ![t] =
                   << SystemPrompt(t) >> \o messages[t]]
            /\ pc' = [pc EXCEPT ![t] = "bg_request"]
       ELSE /\ pc' = [pc EXCEPT ![t] = "exited"]
            /\ UNCHANGED api_messages
    /\ UNCHANGED << kind, cause, produced, remarked, ret, conversation_id, user_message, messages,
                    assistant_message_id, full_content, frame, item,
                    doneSeen, pingSeen, otherSeen, outcome, saved, events, storage, lock,
                    cancelled_streams, nextId, sent >>

\* faulty variant of StreamRequestFails: the failed request still falls
\* through to the emit of assistant_stream_finished
StreamRequestFails_Finishes(t) ==
    /\ pc[t] = "bg_request"
    /\ events' = [events EXCEPT ![t] = Append(@, FinishedEvent(t))]
    /\ pc' = [pc EXCEPT ![t] = "exited"]
    /\ UNCHANGED << kind, cause, produced, remarked, ret, conversation_id, user_message, messages,
                    api_messages, assistant_message_id, full_content, frame,
                    item, doneSeen, pingSeen, otherSeen, outcome, saved,
                    storage, lock, cancelled_streams, nextId, sent >>

\* send_chat_stream_request fails: transport error or non-success status
StreamRequestFails(t) ==
    /\ pc[t] = "bg_request"
    /\ pc' = [pc EXCEPT ![t] = "exited"]
    /\ UNCHANGED << kind, cause, produced, remarked, ret, conversation_id, user_message, messages,
                    api_messages, assistant_message_id, full_content, frame,
                    item, doneSeen, pingSeen, otherSeen, outcome, saved, events, storage, lock,
                    cancelled_streams, nextId, sent >>

\* faulty variant of SendStreamOpened: the message id is taken without
\* being used up, so the next session gets the same id
SendStreamOpened_ReusesId(t, emitted) ==
    /\ pc[t] = "bg_request"
    /\ kind[t] = "send"
    /\ assistant_message_id' = [assistant_message_id EXCEPT ![t] = nextId]
    /\ full_content' = [full_content EXCEPT ![t] = << >>]
    /\ IF emitted
       THEN /\ events' = [events EXCEPT ![t] =
                   Append(@, StartedEvent(t, nextId))]
            /\ pc' = [pc EXCEPT ![t] = "next"]
       ELSE /\ pc' = [pc EXCEPT ![t] = "aborted"]
            /\ UNCHANGED events
    /\ UNCHANGED << kind, cause, produced, remarked, ret, conversation_id,
                    user_message, messages, api_messages, frame, item,
                    doneSeen, pingSeen, otherSeen, outcome, saved, storage,
                    lock, cancelled_streams, nextId, sent >>

\* faulty variant of SendStreamOpened: a failed emit of
\* assistant_stream_started is only logged and the loop is entered
SendStreamOpened_IgnoresEmitError(t, emitted) ==
    /\ pc[t] = "bg_request"
    /\ kind[t] = "send"
    /\ assistant_message_id' = [assistant_message_id EXCEPT ![t] = nextId]
    /\ nextId' = nextId + 1
    /\ full_content' = [full_content EXCEPT ![t] = << >>]
    /\ pc' = [pc EXCEPT ![t] = "next"]
    /\ IF emitted
       THEN events' = [events EXCEPT ![t] =
                   Append(@, StartedEvent(t, nextId))]
       ELSE UNCHANGED events
    /\ UNCHANGED << kind, cause, produced, remarked, ret, conversation_id, user_message, messages,
                    api_messages, frame, item, doneSeen, pingSeen, otherSeen,
                    outcome, saved, storage, lock, cancelled_streams, sent >>

\* send_message: the request returns the stream; full_content and the
\* message id are created and assistant_stream_started is emitted.  When
\* the emit fails the task returns.
SendStreamOpened(t, emitted) ==
    /\ pc[t] = "bg_request"
    /\ kind[t] = "send"
    /\ assistant_message_id' = [assistant_message_id EXCEPT ![t] = nextId]
    /\ nextId' = nextId + 1
    /\ full_content' = [full_content EXCEPT ![t] = << >>]
    /\ IF emitted
       THEN /\ events' = [events EXCEPT ![t] =
                   Append(@, StartedEvent(t, nextId))]
            /\ pc' = [pc EXCEPT ![t] = "next"]
       ELSE /\ pc' = [pc EXCEPT ![t] = "aborted"]
            /\ UNCHANGED events
    /\ UNCHANGED << kind, cause, produced, remarked, ret, conversation_id, user_message, messages,
                    api_messages, frame, item, doneSeen, pingSeen, otherSeen, outcome, saved,
                    storage, lock, cancelled_streams, sent >>

\* regenerate_last_response: the request returns the stream; full_content
\* and the message id are created and the loop is entered
RegenStreamOpened(t) ==
    /\ pc[t] = "bg_request"
    /\ kind[t] = "regen"
    /\ assistant_message_id' = [assistant_message_id EXCEPT ![t] = nextId]
    /\ nextId' = nextId + 1
    /\ full_content' = [full_content EXCEPT ![t] = << >>]
    /\ pc' = [pc EXCEPT ![t] = "next"]
    /\ UNCHANGED << kind, cause, produced, remarked, ret, conversation_id, user_message, messages,
                    api_messages, frame, item, doneSeen, pingSeen, otherSeen, outcome, saved,
                    events, storage, lock, cancelled_streams, sent >>

(***************************************************************************)
(* delta_stream: eventsource item -> map -> filter_map.                    *)
(***************************************************************************)
IsSentinel(ev) == ev.ok /\ Trim(ev.data) = << DoneTok >>
\* the event's payload is the heartbeat {"type":"ping"}
IsPing(ev) == ev.ok /\ Trim(ev.data) = << JsonTok(TypedFrame("ping")) >>
\* the event's payload is an object with another type, {"type":"other"}
IsOtherType(ev) == ev.ok /\ Trim(ev.data) = << JsonTok(TypedFrame("other")) >>

\* delta_stream.next() is polled and the transport delivers one SSE event
EventArrives(t, ev) ==
    /\ pc[t] = "next"
    /\ sent < MaxFrames
    /\ sent' = sent + 1
    /\ frame' = [frame EXCEPT ![t] = ev]
    /\ doneSeen' = [doneSeen EXCEPT ![t] = @ \/ IsSentinel(ev)]
    /\ pingSeen' = [pingSeen EXCEPT ![t] = @ \/ IsPing(ev)]
    /\ otherSeen' = [otherSeen EXCEPT ![t] = @ \/ IsOtherType(ev)]
    /\ pc' = [pc EXCEPT ![t] = "map"]
    /\ UNCHANGED << kind, cause, produced, remarked, ret, conversation_id, user_message, messages,
                    api_messages, assistant_message_id, full_content, item,
                    outcome, saved, events, storage, lock,
                    cancelled_streams, nextId >>

\* where the task goes when it leaves the while loop
AfterLoop(t) == IF kind[t] = "send" THEN "fin_lock" ELSE "emit_fin"

\* faulty variant of MapFilter: the item is handed to the match without
\* the test of cancelled_streams
MapFilter_SkipsCheck(t) ==
    /\ pc[t] = "map"
    /\ frame' = [frame EXCEPT ![t] = NoEvent]
    /\ produced' = [produced EXCEPT ![t] =
           IF MapEvent(frame[t]).tag = "content"
           THEN Append(@, MapEvent(frame[t]).content) ELSE @]
    /\ IF Passes(MapEvent(frame[t]))
       THEN /\ item' = [item EXCEPT ![t] = MapEvent(frame[t])]
            /\ pc' = [pc EXCEPT ![t] = "dispatch"]
       ELSE /\ pc' = [pc EXCEPT ![t] = "next"]
            /\ UNCHANGED item
    /\ UNCHANGED << kind, cause, remarked, ret, conversation_id, user_message, messages,
                    api_messages, assistant_message_id, full_content,
                    doneSeen, pingSeen, otherSeen, outcome, saved, events, storage, lock,
                    cancelled_streams, nextId, sent >>

\* the event goes through map and filter_map: it is dropped and the stream
\* is polled again, or it becomes the item delta_stream.next() returns
MapFilter(t) ==
    /\ pc[t] = "map"
    /\ frame' = [frame EXCEPT ![t] = NoEvent]
    /\ produced' = [produced EXCEPT ![t] =
           IF MapEvent(frame[t]).tag = "content"
           THEN Append(@, MapEvent(frame[t]).content) ELSE @]
    /\ IF Passes(MapEvent(frame[t]))
       THEN /\ item' = [item EXCEPT ![t] = MapEvent(frame[t])]
            /\ pc' = [pc EXCEPT ![t] = "check"]
       ELSE /\ pc' = [pc EXCEPT ![t] = "next"]
            /\ UNCHANGED item
    /\ UNCHANGED << kind, cause, remarked, ret, conversation_id, user_message, messages,
                    api_messages, assistant_message_id, full_content,
                    doneSeen, pingSeen, otherSeen, outcome, saved, events, storage, lock,
                    cancelled_streams, nextId, sent >>

\* faulty variant of StreamCloses: when the stream ends the map is tested
\* once more, and a marked session goes to the remove
StreamCloses_ChecksMark(t) ==
    /\ pc[t] = "next"
    /\ IF assistant_message_id[t] \in cancelled_streams
       THEN /\ pc' = [pc EXCEPT ![t] = "remove"]
            /\ UNCHANGED outcome
       ELSE /\ outcome' = [outcome EXCEPT ![t] = "completed"]
            /\ pc' = [pc EXCEPT ![t] = AfterLoop(t)]
    /\ UNCHANGED << kind, cause, produced, remarked, ret, conversation_id,
                    user_message, messages, api_messages,
                    assistant_message_id, full_content, frame, item, doneSeen,
                    pingSeen, otherSeen, saved, events, storage, lock,
                    cancelled_streams, nextId, sent >>

\* the byte stream ends: delta_stream.next() returns None, the loop ends
StreamCloses(t) ==
    /\ pc[t] = "next"
    /\ outcome' = [outcome EXCEPT ![t] = "completed"]
    /\ pc' = [pc EXCEPT ![t] = AfterLoop(t)]
    /\ UNCHANGED << kind, cause, produced, remarked, ret, conversation_id, user_message, messages,
                    api_messages, assistant_message_id, full_content, frame,
                    item, doneSeen, pingSeen, otherSeen, saved, events, storage, lock,
                    cancelled_streams, nextId, sent >>

(***************************************************************************)
(* The body of the while loop (the same in both background tasks).         *)
(***************************************************************************)
\* faulty variant of CheckCancelled: the map is tested only before the
\* first fragment was accepted
CheckCancelled_OnlyAtStart(t) ==
    /\ pc[t] = "check"
    /\ pc' = [pc EXCEPT ![t] =
           IF /\ assistant_message_id[t] \in cancelled_streams
              /\ full_content[t] = << >>
           THEN "remove" ELSE "dispatch"]
    /\ UNCHANGED << kind, cause, produced, remarked, ret, conversation_id,
                    user_message, messages, api_messages,
                    assistant_message_id, full_content, frame, item, doneSeen,
                    pingSeen, otherSeen, outcome, saved, events, storage, lock,
                    cancelled_streams, nextId, sent >>

\* faulty variant of CheckCancelled: any entry of the map stops the loop
CheckCancelled_AnyMark(t) ==
    /\ pc[t] = "check"
    /\ pc' = [pc EXCEPT ![t] =
           IF cancelled_streams # {} THEN "remove" ELSE "dispatch"]
    /\ UNCHANGED << kind, cause, produced, remarked, ret, conversation_id,
                    user_message, messages, api_messages,
                    assistant_message_id, full_content, frame, item, doneSeen,
                    pingSeen, otherSeen, outcome, saved, events, storage, lock,
                    cancelled_streams, nextId, sent >>

\* cancelled_streams.contains_key(&assistant_message_id)
CheckCancelled(t) ==
    /\ pc[t] = "check"
    /\ pc' = [pc EXCEPT ![t] =
           IF assistant_message_id[t] \in cancelled_streams
           THEN "remove" ELSE "dispatch"]
    /\ UNCHANGED << kind, cause, produced, remarked, ret, conversation_id, user_message, messages,
                    api_messages, assistant_message_id, full_content, frame,
                    item, doneSeen, pingSeen, otherSeen, outcome, saved, events, storage, lock,
                    cancelled_streams, nextId, sent >>

\* faulty variant of RemoveCancelled: the mark is removed and the item
\* skipped, but the loop goes on
RemoveCancelled_Continues(t) ==
    /\ pc[t] = "remove"
    /\ cancelled_streams' = cancelled_streams \ {assistant_message_id[t]}
    /\ item' = [item EXCEPT ![t] = NoItem]
    /\ pc' = [pc EXCEPT ![t] = "next"]
    /\ UNCHANGED << kind, cause, produced, remarked, ret, conversation_id,
                    user_message, messages, api_messages,
                    assistant_message_id, full_content, frame, doneSeen,
                    pingSeen, otherSeen, outcome, saved, events, storage,
                    lock, nextId, sent >>

\* faulty variant of RemoveCancelled: the loop breaks without the remove
RemoveCancelled_KeepsMark(t) ==
    /\ pc[t] = "remove"
    /\ item' = [item EXCEPT ![t] = NoItem]
    /\ outcome' = [outcome EXCEPT ![t] = "cancelled"]
    /\ pc' = [pc EXCEPT ![t] = AfterLoop(t)]
    /\ UNCHANGED << kind, cause, produced, remarked, ret, conversation_id,
                    user_message, messages, api_messages,
                    assistant_message_id, full_content, frame, doneSeen,
                    pingSeen, otherSeen, saved, events, storage, lock,
                    cancelled_streams, nextId, sent >>

\* faulty variant of RemoveCancelled: the item in hand is still appended and
\* emitted before the loop is left
RemoveCancelled_AfterDispatch(t) ==
    /\ pc[t] = "remove"
    /\ cancelled_streams' = cancelled_streams \ {assistant_message_id[t]}
    /\ item' = [item EXCEPT ![t] = NoItem]
    /\ outcome' = [outcome EXCEPT ![t] = "cancelled"]
    /\ pc' = [pc EXCEPT ![t] = AfterLoop(t)]
    /\ IF item[t].tag = "content"
       THEN /\ full_content' = [full_content EXCEPT ![t] =
                   @ \o item[t].content]
            /\ events' = [events EXCEPT ![t] =
                   Append(@, ChunkEvent(t, item[t].content))]
       ELSE UNCHANGED << full_content, events >>
    /\ UNCHANGED << kind, cause, produced, remarked, ret, conversation_id, user_message, messages,
                    api_messages, assistant_message_id, frame, doneSeen, pingSeen, otherSeen,
                    saved, storage, lock, nextId, sent >>

\* cancelled_streams.remove(&assistant_message_id); break
RemoveCancelled(t) ==
    /\ pc[t] = "remove"
    /\ cancelled_streams' = cancelled_streams \ {assistant_message_id[t]}
    /\ item' = [item EXCEPT ![t] = NoItem]
    /\ outcome' = [outcome EXCEPT ![t] = "cancelled"]
    /\ pc' = [pc EXCEPT ![t] = AfterLoop(t)]
    /\ UNCHANGED << kind, cause, produced, remarked, ret, conversation_id, user_message, messages,
                    api_messages, assistant_message_id, full_content, frame,
                    doneSeen, pingSeen, otherSeen, saved, events, storage, lock, nextId, sent >>

\* faulty variant of Dispatch: an Err item is skipped and the loop polls
\* the stream again
Dispatch_SkipsBadChunk(t) ==
    /\ pc[t] = "dispatch"
    /\ item' = [item EXCEPT ![t] = NoItem]
    /\ pc' = [pc EXCEPT ![t] = "next"]
    /\ IF item[t].tag = "content"
       THEN /\ full_content' = [full_content EXCEPT ![t] =
                   @ \o item[t].content]
            /\ events' = [events EXCEPT ![t] =
                   Append(@, ChunkEvent(t, item[t].content))]
       ELSE UNCHANGED << full_content, events >>
    /\ UNCHANGED << kind, cause, produced, remarked, ret, conversation_id, user_message, messages,
                    api_messages, assistant_message_id, frame, doneSeen, pingSeen, otherSeen,
                    outcome, saved, storage, lock, cancelled_streams, nextId, sent >>

\* faulty variant of Dispatch: an Err item discards what was accumulated
Dispatch_ClearsOnError(t) ==
    /\ pc[t] = "dispatch"
    /\ item' = [item EXCEPT ![t] = NoItem]
    /\ IF item[t].tag = "content"
       THEN /\ full_content' = [full_content EXCEPT ![t] =
                   @ \o item[t].content]
            /\ events' = [events EXCEPT ![t] =
                   Append(@, ChunkEvent(t, item[t].content))]
            /\ pc' = [pc EXCEPT ![t] = "next"]
            /\ UNCHANGED << outcome, cause >>
       ELSE /\ outcome' = [outcome EXCEPT ![t] = "errored"]
            /\ cause' = [cause EXCEPT ![t] = item[t].tag]
            /\ pc' = [pc EXCEPT ![t] = AfterLoop(t)]
            /\ full_content' = [full_content EXCEPT ![t] = << >>]
            /\ UNCHANGED events
    /\ UNCHANGED << kind, produced, remarked, ret, conversation_id, user_message, messages,
                    api_messages, assistant_message_id, frame, doneSeen, pingSeen,
                    otherSeen, saved, storage, lock, cancelled_streams, nextId, sent >>

\* faulty variant of Dispatch: the chunk event carries the accumulated
\* full_content instead of the fragment
Dispatch_EmitsAccumulated(t) ==
    /\ pc[t] = "dispatch"
    /\ item' = [item EXCEPT ![t] = NoItem]
    /\ IF item[t].tag = "content"
       THEN /\ full_content' = [full_content EXCEPT ![t] =
                   @ \o item[t].content]
            /\ events' = [events EXCEPT ![t] =
                   Append(@, ChunkEvent(t, full_content[t] \o item[t].content))]
            /\ pc' = [pc EXCEPT ![t] = "next"]
            /\ UNCHANGED << outcome, cause >>
       ELSE /\ outcome' = [outcome EXCEPT ![t] = "errored"]
            /\ cause' = [cause EXCEPT ![t] = item[t].tag]
            /\ pc' = [pc EXCEPT ![t] = AfterLoop(t)]
            /\ UNCHANGED << full_content, events >>
    /\ UNCHANGED << kind, produced, remarked, ret, conversation_id, user_message,
                    messages, api_messages, assistant_message_id, frame,
                    doneSeen, pingSeen, otherSeen, saved, storage, lock,
                    cancelled_streams, nextId, sent >>

\* faulty variant of Dispatch: an Err item makes the task return
Dispatch_ReturnOnError(t) ==
    /\ pc[t] = "dispatch"
    /\ item' = [item EXCEPT ![t] = NoItem]
    /\ IF item[t].tag = "content"
       THEN /\ full_content' = [full_content EXCEPT ![t] =
                   @ \o item[t].content]
            /\ events' = [events EXCEPT ![t] =
                   Append(@, ChunkEvent(t, item[t].content))]
            /\ pc' = [pc EXCEPT ![t] = "next"]
            /\ UNCHANGED << outcome, cause >>
       ELSE /\ outcome' = [outcome EXCEPT ![t] = "errored"]
            /\ cause' = [cause EXCEPT ![t] = item[t].tag]
            /\ pc' = [pc EXCEPT ![t] = "exited"]
            /\ UNCHANGED << full_content, events >>
    /\ UNCHANGED << kind, produced, remarked, ret, conversation_id, user_message, messages,
                    api_messages, assistant_message_id, frame, doneSeen, pingSeen, otherSeen,
                    saved, storage, lock, cancelled_streams, nextId, sent >>

\* faulty variant of Dispatch: the fragment is emitted but not appended
Dispatch_NoAppend(t) ==
    /\ pc[t] = "dispatch"
    /\ item' = [item EXCEPT ![t] = NoItem]
    /\ IF item[t].tag = "content"
       THEN /\ events' = [events EXCEPT ![t] =
                   Append(@, ChunkEvent(t, item[t].content))]
            /\ pc' = [pc EXCEPT ![t] = "next"]
            /\ UNCHANGED << outcome, cause, full_content >>
       ELSE /\ outcome' = [outcome EXCEPT ![t] = "errored"]
            /\ cause' = [cause EXCEPT ![t] = item[t].tag]
            /\ pc' = [pc EXCEPT ![t] = AfterLoop(t)]
            /\ UNCHANGED << full_content, events >>
    /\ UNCHANGED << kind, produced, remarked, ret, conversation_id, user_message, messages,
                    api_messages, assistant_message_id, frame, doneSeen, pingSeen, otherSeen,
                    saved, storage, lock, cancelled_streams, nextId, sent >>

\* faulty variant of Dispatch: the message is written to storage each time
\* a fragment is appended
Dispatch_SavesPartial(t) ==
    /\ pc[t] = "dispatch"
    /\ item' = [item EXCEPT ![t] = NoItem]
    /\ IF item[t].tag = "content"
       THEN /\ full_content' = [full_content EXCEPT ![t] =
                   @ \o item[t].content]
            /\ events' = [events EXCEPT ![t] =
                   Append(@, ChunkEvent(t, item[t].content))]
            /\ storage' = Append(storage,
                   Msg(assistant_message_id[t], conv_uuid(t), "assistant",
                       full_content[t] \o item[t].content))
            /\ pc' = [pc EXCEPT ![t] = "next"]
            /\ UNCHANGED << outcome, cause >>
       ELSE /\ outcome' = [outcome EXCEPT ![t] = "errored"]
            /\ cause' = [cause EXCEPT ![t] = item[t].tag]
            /\ pc' = [pc EXCEPT ![t] = AfterLoop(t)]
            /\ UNCHANGED << full_content, events, storage >>
    /\ UNCHANGED << kind, produced, remarked, ret, conversation_id, user_message, messages,
                    api_messages, assistant_message_id, frame, doneSeen, pingSeen, otherSeen,
                    saved, lock, cancelled_streams, nextId, sent >>

\* faulty variant of Dispatch: the fragment is put in front of what was
\* accumulated
Dispatch_Prepends(t) ==
    /\ pc[t] = "dispatch"
    /\ item' = [item EXCEPT ![t] = NoItem]
    /\ IF item[t].tag = "content"
       THEN /\ full_content' = [full_content EXCEPT ![t] =
                   item[t].content \o @]
            /\ events' = [events EXCEPT ![t] =
                   Append(@, ChunkEvent(t, item[t].content))]
            /\ pc' = [pc EXCEPT ![t] = "next"]
            /\ UNCHANGED << outcome, cause >>
       ELSE /\ outcome' = [outcome EXCEPT ![t] = "errored"]
            /\ cause' = [cause EXCEPT ![t] = item[t].tag]
            /\ pc' = [pc EXCEPT ![t] = AfterLoop(t)]
            /\ UNCHANGED << full_content, events >>
    /\ UNCHANGED << kind, produced, remarked, ret, conversation_id, user_message,
                    messages, api_messages, assistant_message_id, frame,
                    doneSeen, pingSeen, otherSeen, saved, storage, lock,
                    cancelled_streams, nextId, sent >>

\* faulty variant of Dispatch: the Err arm records the error but has no
\* break, so the loop polls the stream again
Dispatch_NoBreakOnError(t) ==
    /\ pc[t] = "dispatch"
    /\ item' = [item EXCEPT ![t] = NoItem]
    /\ pc' = [pc EXCEPT ![t] = "next"]
    /\ IF item[t].tag = "content"
       THEN /\ full_content' = [full_content EXCEPT ![t] =
                   @ \o item[t].content]
            /\ events' = [events EXCEPT ![t] =
                   Append(@, ChunkEvent(t, item[t].content))]
            /\ UNCHANGED << outcome, cause >>
       ELSE /\ outcome' = [outcome EXCEPT ![t] = "errored"]
            /\ cause' = [cause EXCEPT ![t] = item[t].tag]
            /\ UNCHANGED << full_content, events >>
    /\ UNCHANGED << kind, produced, remarked, ret, conversation_id, user_message,
                    messages, api_messages, assistant_message_id, frame,
                    doneSeen, pingSeen, otherSeen, saved, storage, lock,
                    cancelled_streams, nextId, sent >>

\* faulty variant of Dispatch: full_content is one buffer shared by the
\* tasks instead of a local of each task
Dispatch_SharedBuffer(t) ==
    /\ pc[t] = "dispatch"
    /\ item' = [item EXCEPT ![t] = NoItem]
    /\ IF item[t].tag = "content"
       THEN /\ full_content' = [u \in Tasks |->
                   full_content[u] \o item[t].content]
            /\ events' = [events EXCEPT ![t] =
                   Append(@, ChunkEvent(t, item[t].content))]
            /\ pc' = [pc EXCEPT ![t] = "next"]
            /\ UNCHANGED << outcome, cause >>
       ELSE /\ outcome' = [outcome EXCEPT ![t] = "errored"]
            /\ cause' = [cause EXCEPT ![t] = item[t].tag]
            /\ pc' = [pc EXCEPT ![t] = AfterLoop(t)]
            /\ UNCHANGED << full_content, events >>
    /\ UNCHANGED << kind, produced, remarked, ret, conversation_id, user_message,
                    messages, api_messages, assistant_message_id, frame,
                    doneSeen, pingSeen, otherSeen, saved, storage, lock,
                    cancelled_streams, nextId, sent >>

\* match delta_result: Ok(delta_content) is appended and emitted, Err breaks
Dispatch(t) ==
    /\ pc[t] = "dispatch"
    /\ item' = [item EXCEPT ![t] = NoItem]
    /\ IF item[t].tag = "content"
       THEN /\ full_content' = [full_content EXCEPT ![t] =
                   @ \o item[t].content]
            /\ events' = [events EXCEPT ![t] =
                   Append(@, ChunkEvent(t, item[t].content))]
            /\ pc' = [pc EXCEPT ![t] = "next"]
            /\ UNCHANGED << outcome, cause >>
       ELSE /\ outcome' = [outcome EXCEPT ![t] = "errored"]
            /\ cause' = [cause EXCEPT ![t] = item[t].tag]
            /\ pc' = [pc EXCEPT ![t] = AfterLoop(t)]
            /\ UNCHANGED << full_content, events >>
    /\ UNCHANGED << kind, produced, remarked, ret, conversation_id, user_message, messages,
                    api_messages, assistant_message_id, frame, doneSeen, pingSeen, otherSeen,
                    saved, storage, lock, cancelled_streams, nextId, sent >>

(***************************************************************************)
(* After the loop.                                                         *)
(***************************************************************************)
FinalLock(t) ==
    /\ Acquire(t, "fin_lock", "fin_save")
    /\ UNCHANGED << kind, cause, produced, remarked, ret, conversation_id, user_message, messages,
                    api_messages, assistant_message_id, full_content, frame,
                    item, doneSeen, pingSeen, otherSeen, outcome, saved, events, storage,
                    cancelled_streams, nextId, sent >>

\* faulty variant of SendSaveFinal: a failed save makes the task return
SendSaveFinal_ReturnOnError(t, o) ==
    /\ pc[t] = "fin_save"
    /\ kind[t] = "send"
    /\ lock = t
    /\ storage' = save_message(storage, AssistantMessage(t), o)
    /\ saved' = [saved EXCEPT ![t] = o]
    /\ lock' = "free"
    /\ pc' = [pc EXCEPT ![t] = IF o = "ok" THEN "emit_fin" ELSE "exited"]
    /\ UNCHANGED << kind, cause, produced, remarked, ret, conversation_id, user_message, messages,
                    api_messages, assistant_message_id, full_content, frame,
                    item, doneSeen, pingSeen, otherSeen, outcome, events,
                    cancelled_streams, nextId, sent >>

\* send_message: the assistant message is saved, then the lock is dropped
SendSaveFinal(t, o) ==
    /\ pc[t] = "fin_save"
    /\ kind[t] = "send"
    /\ lock = t
    /\ storage' = save_message(storage, AssistantMessage(t), o)
    /\ saved' = [saved EXCEPT ![t] = o]
    /\ lock' = "free"
    /\ pc' = [pc EXCEPT ![t] = "emit_fin"]
    /\ UNCHANGED << kind, cause, produced, remarked, ret, conversation_id, user_message, messages,
                    api_messages, assistant_message_id, full_content, frame,
                    item, doneSeen, pingSeen, otherSeen, outcome, events, cancelled_streams,
                    nextId, sent >>

\* send_message: assistant_stream_finished is emitted, the task ends
SendEmitFinished(t) ==
    /\ pc[t] = "emit_fin"
    /\ kind[t] = "send"
    /\ events' = [events EXCEPT ![t] = Append(@, FinishedEvent(t))]
    /\ pc' = [pc EXCEPT ![t] = "done"]
    /\ UNCHANGED << kind, cause, produced, remarked, ret, conversation_id, user_message, messages,
                    api_messages, assistant_message_id, full_content, frame,
                    item, doneSeen, pingSeen, otherSeen, outcome, saved, storage, lock,
                    cancelled_streams, nextId, sent >>

\* regenerate_last_response: assistant_stream_finished is emitted, then
\* the message is saved if full_content is not empty
RegenEmitFinished(t) ==
    /\ pc[t] = "emit_fin"
    /\ kind[t] = "regen"
    /\ events' = [events EXCEPT ![t] = Append(@, FinishedEvent(t))]
    /\ pc' = [pc EXCEPT ![t] =
           IF full_content[t] # << >> THEN "fin_lock" ELSE "done"]
    /\ UNCHANGED << kind, cause, produced, remarked, ret, conversation_id, user_message, messages,
                    api_messages, assistant_message_id, full_content, frame,
                    item, doneSeen, pingSeen, otherSeen, outcome, saved, storage, lock,
                    cancelled_streams, nextId, sent >>

RegenSaveFinal(t, o) ==
    /\ pc[t] = "fin_save"
    /\ kind[t] = "regen"
    /\ lock = t
    /\ storage' = save_message(storage, AssistantMessage(t), o)
    /\ saved' = [saved EXCEPT ![t] = o]
    /\ lock' = "free"
    /\ pc' = [pc EXCEPT ![t] = "done"]
    /\ UNCHANGED << kind, cause, produced, remarked, ret, conversation_id, user_message, messages,
                    api_messages, assistant_message_id, full_content, frame,
                    item, doneSeen, pingSeen, otherSeen, outcome, events, cancelled_streams,
                    nextId, sent >>

(***************************************************************************)
(* stop_generation.                                                        *)
(***************************************************************************)
\* the message ids a caller can pass: the ids of the assistant messages
\* allocated so far, an id of no session, and a text that is not a UUID
MessageIdInputs ==
    { to_string(assistant_message_id[t]) :
          t \in { u \in Tasks : assistant_message_id[u] # NilUuid } }
    \cup { to_string(UnknownUuid), BadIdStr }

\* faulty variant of StopGeneration: a call for an id that is already in
\* the map takes the entry out again
StopGeneration_Toggles(message_id) ==
    /\ cancelled_streams' =
           IF parse_str(message_id).ok
           THEN IF parse_str(message_id).uuid \in cancelled_streams
                THEN cancelled_streams \ { parse_str(message_id).uuid }
                ELSE cancelled_streams \cup { parse_str(message_id).uuid }
           ELSE cancelled_streams
    /\ remarked' = [t \in Tasks |->
           \/ remarked[t]
           \/ /\ parse_str(message_id).ok
              /\ assistant_message_id[t] = parse_str(message_id).uuid
              /\ assistant_message_id[t] \in cancelled_streams]
    /\ UNCHANGED << pc, kind, ret, conversation_id, user_message, messages,
                    api_messages, assistant_message_id, full_content, frame,
                    item, doneSeen, pingSeen, otherSeen, outcome, cause,
                    produced, saved, events, storage, lock, nextId, sent >>

\* faulty variant of StopGeneration: a text that does not parse is replaced
\* by the nil UUID (unwrap_or_default) and inserted
StopGeneration_InsertsNil(message_id) ==
    /\ cancelled_streams' =
           cancelled_streams \cup { parse_str(message_id).uuid }
    /\ remarked' = [t \in Tasks |->
           \/ remarked[t]
           \/ /\ parse_str(message_id).ok
              /\ assistant_message_id[t] = parse_str(message_id).uuid
              /\ assistant_message_id[t] \in cancelled_streams]
    /\ UNCHANGED << pc, kind, ret, conversation_id, user_message, messages,
                    api_messages, assistant_message_id, full_content, frame,
                    item, doneSeen, pingSeen, otherSeen, outcome, cause,
                    produced, saved, events, storage, lock, nextId, sent >>

\* a text that does not parse is rejected with Err and nothing is inserted
StopGeneration(message_id) ==
    /\ cancelled_streams' =
           IF parse_str(message_id).ok
           THEN cancelled_streams \cup { parse_str(message_id).uuid }
           ELSE cancelled_streams
    /\ remarked' = [t \in Tasks |->
           \/ remarked[t]
           \/ /\ parse_str(message_id).ok
              /\ assistant_message_id[t] = parse_str(message_id).uuid
              /\ assistant_message_id[t] \in cancelled_streams]
    /\ UNCHANGED << pc, kind, ret, conversation_id, user_message, messages,
                    api_messages, assistant_message_id, full_content, frame,
                    item, doneSeen, pingSeen, otherSeen, outcome, cause,
                    produced, saved, events, storage, lock, nextId, sent >>

(***************************************************************************)
(* Specification.                                                          *)
(***************************************************************************)
\* one step of the application with the task slots T, where the remote of
\* task t delivers events of F[t]
Step(T, F) ==
    \/ \E t \in T, cid \in ConversationIdInputs, c \in ContentInputs :
           SendMessage(t, cid, c)
    \/ \E t \in T : SendLockUser(t)
    \/ \E t \in T, o \in SaveOutcomes : SendSaveUser(t, o)
    \/ \E t \in T : SendLockHistory(t)
    \/ \E t \in T, o \in {"ok", "err"} : SendLoadHistory(t, o)
    \/ \E t \in T : SendLockConfig(t)
    \/ \E t \in T, o \in ConfigOutcomes : SendLoadConfig(t, o)
    \/ \E t \in T, cid \in ConversationIdInputs :
           RegenerateLastResponse(t, cid)
    \/ \E t \in T : RegenLock(t)
    \/ \E t \in T, o \in {"ok", "err"}, del \in {"ok", "err"} :
           RegenLoadAndDelete(t, o, del)
    \/ \E t \in T, o \in ConfigOutcomes : RegenLoadConfig(t, o)
    \/ \E t \in T, ok \in BOOLEAN : GetApiKey(t, ok)
    \/ \E t \in T : StreamRequestFails(t)
    \/ \E t \in T, emitted \in BOOLEAN : SendStreamOpened(t, emitted)
    \/ \E t \in T : RegenStreamOpened(t)
    \/ \E t \in T : \E ev \in F[t] : EventArrives(t, ev)
    \/ \E t \in T : MapFilter(t)
    \/ \E t \in T : StreamCloses(t)
    \/ \E t \in T : CheckCancelled(t)
    \/ \E t \in T : RemoveCancelled(t)
    \/ \E t \in T : Dispatch(t)
    \/ \E t \in T : FinalLock(t)
    \/ \E t \in T, o \in SaveOutcomes : SendSaveFinal(t, o)
    \/ \E t \in T : SendEmitFinished(t)
    \/ \E t \in T : RegenEmitFinished(t)
    \/ \E t \in T, o \in SaveOutcomes : RegenSaveFinal(t, o)
    \/ \E m \in MessageIdInputs : StopGeneration(m)

\* one turn, any event the wire format allows
Next == Step({"t1"}, [t \in Tasks |-> Frames])
Spec == Init /\ [][Next]_vars

(***************************************************************************)
(* Two turns at once.  Both slots run send_message on the conversation;    *)
(* storage and the key store do not fail, the remotes deliver content      *)
(* chunks, and stop_generation is called as in Spec.                       *)
(* The MaxFrames events are shared by the two streams.                     *)
(***************************************************************************)
ConcFrames == { Event(<< JsonTok(FullChunk(<<"a">>)) >>) }

NextConc ==
    \/ \E t \in Tasks : SendMessage(t, to_string(ConvUuid), <<"q">>)
    \/ \E t \in Tasks : SendLockUser(t)
    \/ \E t \in Tasks : SendSaveUser(t, "ok")
    \/ \E t \in Tasks : SendLockHistory(t)
    \/ \E t \in Tasks : SendLoadHistory(t, "ok")
    \/ \E t \in Tasks : SendLockConfig(t)
    \/ \E t \in Tasks : SendLoadConfig(t, "ok")
    \/ \E t \in Tasks : GetApiKey(t, TRUE)
    \/ \E t \in Tasks : SendStreamOpened(t, TRUE)
    \/ \E t \in Tasks : \E ev \in ConcFrames : EventArrives(t, ev)
    \/ \E t \in Tasks : MapFilter(t)
    \/ \E t \in Tasks : StreamCloses(t)
    \/ \E t \in Tasks : CheckCancelled(t)
    \/ \E t \in Tasks : RemoveCancelled(t)
    \/ \E t \in Tasks : Dispatch(t)
    \/ \E t \in Tasks : FinalLock(t)
    \/ \E t \in Tasks : SendSaveFinal(t, "ok")
    \/ \E t \in Tasks : SendEmitFinished(t)
    \/ \E m \in MessageIdInputs : StopGeneration(m)

SpecConc == Init /\ [][NextConc]_vars

(***************************************************************************)
(* A send_message turn (slot t1) and a regenerate_last_response turn (slot *)
(* t2) at once on the conversation.  Storage and the key store do not      *)
(* fail; the remote of t1 delivers chunks with content "a", the remote of  *)
(* t2 chunks with content "b", and either stream may break with a decode   *)
(* error; stop_generation is called for the ids of the two sessions.       *)
(* The MaxFrames events are shared by the two streams.                     *)
(***************************************************************************)
\* the fragment the remote of a slot sends
OwnFragment(t) == IF t = "t1" THEN <<"a">> ELSE <<"b">>

PairFrames(t) == { Event(<< JsonTok(FullChunk(OwnFragment(t))) >>), DecodeError }

\* the ids of the sessions that exist
SessionIdInputs ==
    { to_string(assistant_message_id[t]) :
          t \in { u \in Tasks : assistant_message_id[u] # NilUuid } }

NextPair ==
    \/ SendMessage("t1", to_string(ConvUuid), <<"q">>)
    \/ SendLockUser("t1")
    \/ SendSaveUser("t1", "ok")
    \/ SendLockHistory("t1")
    \/ SendLoadHistory("t1", "ok")
    \/ SendLockConfig("t1")
    \/ SendLoadConfig("t1", "ok")
    \/ RegenerateLastResponse("t2", to_string(ConvUuid))
    \/ RegenLock("t2")
    \/ RegenLoadAndDelete("t2", "ok", "ok")
    \/ RegenLoadConfig("t2", "ok")
    \/ \E t \in Tasks : GetApiKey(t, TRUE)
    \/ SendStreamOpened("t1", TRUE)
    \/ RegenStreamOpened("t2")
    \/ \E t \in Tasks : \E ev \in PairFrames(t) : EventArrives(t, ev)
    \/ \E t \in Tasks : MapFilter(t)
    \/ \E t \in Tasks : StreamCloses(t)
    \/ \E t \in Tasks : CheckCancelled(t)
    \/ \E t \in Tasks : RemoveCancelled(t)
    \/ \E t \in Tasks : Dispatch(t)
    \/ \E t \in Tasks : FinalLock(t)
    \/ SendSaveFinal("t1", "ok")
    \/ SendEmitFinished("t1")
    \/ RegenEmitFinished("t2")
    \/ RegenSaveFinal("t2", "ok")
    \/ \E m \in SessionIdInputs : StopGeneration(m)

SpecPair == Init /\ [][NextPair]_vars

(***************************************************************************)
(* A send_message turn (slot t1) and a regenerate_last_response turn (slot *)
(* t2) at once, with every outcome of the storage calls: each save, load   *)
(* and delete may fail.  The remote of a slot delivers content chunks and   *)
(* stop_generation, which does not touch the mutex, is not called.         *)
(***************************************************************************)
LockFrames(t) == { Event(<< JsonTok(FullChunk(OwnFragment(t))) >>) }

NextLock ==
    \/ SendMessage("t1", to_string(ConvUuid), <<"q">>)
    \/ SendLockUser("t1")
    \/ \E o \in SaveOutcomes : SendSaveUser("t1", o)
    \/ SendLockHistory("t1")
    \/ \E o \in {"ok", "err"} : SendLoadHistory("t1", o)
    \/ SendLockConfig("t1")
    \/ \E o \in ConfigOutcomes : SendLoadConfig("t1", o)
    \/ RegenerateLastResponse("t2", to_string(ConvUuid))
    \/ RegenLock("t2")
    \/ \E o \in {"ok", "err"}, del \in {"ok", "err"} :
           RegenLoadAndDelete("t2", o, del)
    \/ \E o \in ConfigOutcomes : RegenLoadConfig("t2", o)
    \/ \E t \in Tasks : GetApiKey(t, TRUE)
    \/ SendStreamOpened("t1", TRUE)
    \/ RegenStreamOpened("t2")
    \/ \E t \in Tasks : \E ev \in LockFrames(t) : EventArrives(t, ev)
    \/ \E t \in Tasks : MapFilter(t)
    \/ \E t \in Tasks : StreamCloses(t)
    \/ \E t \in Tasks : CheckCancelled(t)
    \/ \E t \in Tasks : Dispatch(t)
    \/ \E t \in Tasks : FinalLock(t)
    \/ \E o \in SaveOutcomes : SendSaveFinal("t1", o)
    \/ SendEmitFinished("t1")
    \/ RegenEmitFinished("t2")
    \/ \E o \in SaveOutcomes : RegenSaveFinal("t2", o)

SpecLock == Init /\ [][NextLock]_vars

\* the steps of a slot at the storage mutex: taking the guard, which the
\* mutex grants in the order of the requests, and the storage calls made
\* under it, each of which returns
LockProgress(t) ==
    \/ SendLockUser(t) \/ SendLockHistory(t) \/ SendLockConfig(t)
    \/ RegenLock(t) \/ FinalLock(t)
    \/ \E o \in SaveOutcomes :
           SendSaveUser(t, o) \/ SendSaveFinal(t, o) \/ RegenSaveFinal(t, o)
    \/ \E o \in {"ok", "err"} : SendLoadHistory(t, o)
    \/ \E o \in ConfigOutcomes : SendLoadConfig(t, o) \/ RegenLoadConfig(t, o)
    \/ \E o \in {"ok", "err"}, del \in {"ok", "err"} :
           RegenLoadAndDelete(t, o, del)

\* nothing is assumed of the remotes or of the steps outside the mutex
FairLockSpec == SpecLock /\ \A t \in Tasks : WF_vars(LockProgress(t))

(***************************************************************************)
(* regenerate_last_response on any stored history: one invocation, up to   *)
(* the api_messages its task builds.                                       *)
(***************************************************************************)
InitRegen ==
    /\ NoCommandYet
    /\ storage \in StoredHistories
    /\ nextId = Len(storage) + 1

NextRegen ==
    \/ \E cid \in ConversationIdInputs : RegenerateLastResponse("t1", cid)
    \/ RegenLock("t1")
    \/ \E o \in {"ok", "err"}, del \in {"ok", "err"} :
           RegenLoadAndDelete("t1", o, del)
    \/ \E o \in ConfigOutcomes : RegenLoadConfig("t1", o)
    \/ \E ok \in BOOLEAN : GetApiKey("t1", ok)

SpecRegen == InitRegen /\ [][NextRegen]_vars

(***************************************************************************)
(* The three commands up to their return, on any stored history: either    *)
(* slot invokes send_message or regenerate_last_response with a            *)
(* conversation id that parses or does not, and stop_generation is called  *)
(* with the texts of MessageIdInputs.                                      *)
(***************************************************************************)
NextReject ==
    \/ \E t \in Tasks, cid \in ConversationIdInputs, c \in ContentInputs :
           SendMessage(t, cid, c)
    \/ \E t \in Tasks : SendLockUser(t)
    \/ \E t \in Tasks, o \in SaveOutcomes : SendSaveUser(t, o)
    \/ \E t \in Tasks, cid \in ConversationIdInputs :
           RegenerateLastResponse(t, cid)
    \/ \E t \in Tasks : RegenLock(t)
    \/ \E t \in Tasks, o \in {"ok", "err"}, del \in {"ok", "err"} :
           RegenLoadAndDelete(t, o, del)
    \/ \E t \in Tasks, o \in ConfigOutcomes : RegenLoadConfig(t, o)
    \/ \E m \in MessageIdInputs : StopGeneration(m)

SpecReject == InitRegen /\ [][NextReject]_vars

\* the steps of a spawned task that the runtime takes without waiting for
\* the remote: the async runtime polls a spawned task until it completes
TaskProgress(t) ==
    \/ MapFilter(t) \/ CheckCancelled(t) \/ RemoveCancelled(t) \/ Dispatch(t)
    \/ FinalLock(t) \/ SendEmitFinished(t) \/ RegenEmitFinished(t)
    \/ \E o \in SaveOutcomes : SendSaveFinal(t, o) \/ RegenSaveFinal(t, o)

FairSpec == Spec /\ \A t \in Tasks : WF_vars(TaskProgress(t))

\* the steps of a command up to its return: the caller awaits the command,
\* so its future is polled until it returns
CommandProgress(t) ==
    \/ SendLockUser(t) \/ RegenLock(t)
    \/ \E o \in SaveOutcomes : SendSaveUser(t, o)
    \/ \E o \in {"ok", "err"}, del \in {"ok", "err"} : RegenLoadAndDelete(t, o, del)
    \/ \E o \in ConfigOutcomes : RegenLoadConfig(t, o)

\* commands make progress; nothing is assumed of the remote or of the
\* spawned tasks
FairCmdSpec == Spec /\ \A t \in Tasks : WF_vars(CommandProgress(t))

(***************************************************************************)
(* Observations on the state.                                              *)
(***************************************************************************)
EventsNamed(t, n) == SelectSeq(events[t], LAMBDA e : e.name = n)
StartedCount(t) == Len(EventsNamed(t, "assistant_stream_started"))
ChunkEvents(t) == EventsNamed(t, "assistant_message_chunk")
FinishedCount(t) == Len(EventsNamed(t, "assistant_stream_finished"))

RECURSIVE ConcatDeltas(_)
ConcatDeltas(es) ==
    IF es = << >> THEN << >> ELSE Head(es).delta \o ConcatDeltas(Tail(es))

\* the rows of the messages table whose id is the task's message id
RowsOf(t) == SelectSeq(storage, LAMBDA m : m.id = assistant_message_id[t])

\* the task is in its while loop
InLoop(t) == pc[t] \in {"next", "map", "check", "remove", "dispatch"}
\* the task has left its while loop
LeftLoop(t) == outcome[t] # "pending"

(***************************************************************************)
(* C1  A session that has allocated its message id and entered stream      *)
(* processing emits exactly one assistant_stream_finished event, carrying  *)
(* its message id, however the stream ended: never more than one, none     *)
(* while it is still in the loop, and once the loop is left the event is   *)
(* eventually emitted.                                                     *)
(***************************************************************************)
C1_FinishedExactlyOnce ==
    /\ [](\A t \in Tasks :
            /\ FinishedCount(t) <= 1
            /\ InLoop(t) => FinishedCount(t) = 0
            /\ \A i \in 1..Len(events[t]) :
                  events[t][i].name = "assistant_stream_finished"
                  => events[t][i].messageId = to_string(assistant_message_id[t])
            /\ pc[t] \in {"done", "exited", "aborted", "failed", "rejected"}
                   /\ LeftLoop(t) => FinishedCount(t) = 1)
    /\ \A t \in Tasks : LeftLoop(t) ~> (FinishedCount(t) = 1)

C1_Witness ==
    \E t \in Tasks :
        /\ pc[t] = "done" /\ outcome[t] = "cancelled"
        /\ FinishedCount(t) = 1 /\ ChunkEvents(t) # << >>

(***************************************************************************)
(* C2  The concatenation, in emission order, of the deltas of the          *)
(* assistant_message_chunk events of a session equals the content of the   *)
(* Message stored under the session's message id.                          *)
(***************************************************************************)
C2_ChunksEqualPersisted ==
    \A t \in Tasks :
        assistant_message_id[t] # NilUuid =>
            /\ full_content[t] = ConcatDeltas(ChunkEvents(t))
            /\ \A i \in 1..Len(RowsOf(t)) :
                  RowsOf(t)[i].content = ConcatDeltas(ChunkEvents(t))

C2_Witness ==
    \E t \in Tasks :
        /\ outcome[t] = "completed" /\ pc[t] = "done"
        /\ Len(ChunkEvents(t)) = 2
        /\ Len(RowsOf(t)) = 1
        /\ RowsOf(t)[1].content = <<"a", "b">>

(***************************************************************************)
(* C3  Once a session has observed the cancellation mark of its message id *)
(* (contains_key returned true), no assistant_message_chunk event is       *)
(* emitted for it any more, and it still emits exactly one                 *)
(* assistant_stream_finished event.                                        *)
(***************************************************************************)
Observed(t) == pc[t] = "remove" \/ outcome[t] = "cancelled"

C3_NoChunkAfterCancel ==
    /\ [][\A t \in Tasks : Observed(t) =>
             /\ ChunkEvents(t)' = ChunkEvents(t)
             /\ full_content'[t] = full_content[t]]_vars
    /\ [](\A t \in Tasks :
             Observed(t) => /\ FinishedCount(t) <= 1
                            /\ pc[t] = "done" => FinishedCount(t) = 1)

C3_Witness ==
    \E t \in Tasks :
        /\ outcome[t] = "cancelled" /\ pc[t] = "done"
        /\ kind[t] = "regen"
        /\ Len(ChunkEvents(t)) = 1 /\ sent = MaxFrames
        /\ FinishedCount(t) = 1

(***************************************************************************)
(* C4  A session that has ended with an empty full_content has no          *)
(* assistant Message in storage and has emitted assistant_stream_finished  *)
(* exactly once.                                                           *)
(***************************************************************************)
C4_EmptyNotPersisted ==
    \A t \in Tasks :
        pc[t] = "done" /\ full_content[t] = << >> =>
            /\ RowsOf(t) = << >>
            /\ FinishedCount(t) = 1

(***************************************************************************)
(* C5  Every session, of send_message and of regenerate_last_response,     *)
(* emits assistant_stream_started with its conversation id and message id  *)
(* exactly once, before any assistant_message_chunk.                       *)
(***************************************************************************)
C5_StartedOnceFirst ==
    \A t \in Tasks :
        InLoop(t) \/ LeftLoop(t) =>
            /\ StartedCount(t) = 1
            /\ events[t][1] = StartedEvent(t, assistant_message_id[t])

(***************************************************************************)
(* C6  The message id of a session is allocated once, before any event of  *)
(* the session, is never changed, is the id of no other message, and is    *)
(* the messageId of every event the session emits and the id of the        *)
(* Message it stores.                                                      *)
(***************************************************************************)
\* the rows written since the application started
NewRows == SubSeq(storage, Len(InitialRows) + 1, Len(storage))

C6_OneMessageId ==
    /\ [][\A t \in Tasks : assistant_message_id[t] # NilUuid =>
             assistant_message_id'[t] = assistant_message_id[t]]_vars
    /\ [](\A t \in Tasks :
            /\ events[t] # << >> => assistant_message_id[t] # NilUuid
            /\ \A i \in 1..Len(events[t]) :
                  events[t][i].messageId = to_string(assistant_message_id[t])
            /\ assistant_message_id[t] # NilUuid =>
                  /\ assistant_message_id[t] # user_message[t].id
                  /\ \A i \in 1..Len(InitialRows) :
                        InitialRows[i].id # assistant_message_id[t]
                  /\ \A u \in Tasks \ {t} :
                        assistant_message_id[u] # assistant_message_id[t])
    /\ [](\A i \in 1..Len(NewRows) :
            NewRows[i].role = "assistant" =>
                \E t \in Tasks :
                    /\ LeftLoop(t)
                    /\ NewRows[i].id = assistant_message_id[t]
                    /\ NewRows[i].conversation_id = conv_uuid(t))

C6_Witness ==
    \E t \in Tasks :
        /\ pc[t] = "done" /\ kind[t] = "send"
        /\ StartedCount(t) = 1 /\ Len(ChunkEvents(t)) = 2
        /\ FinishedCount(t) = 1 /\ Len(RowsOf(t)) = 1

(***************************************************************************)
(* C7  A session writes at most one assistant Message, and only after it   *)
(* has left its stream loop: while the task is in the loop the messages    *)
(* table holds no row with its message id and no step of it changes the    *)
(* table; save_message is attempted at most once.                          *)
(***************************************************************************)
C7_OneSaveAfterLoop ==
    /\ [](\A t \in Tasks :
            assistant_message_id[t] # NilUuid =>
                /\ Len(RowsOf(t)) <= 1
                /\ InLoop(t) => RowsOf(t) = << >> /\ saved[t] = "none")
    /\ [][\A t \in Tasks :
             /\ saved[t] # "none" => saved'[t] = saved[t]
             /\ InLoop(t) /\ pc'[t] # pc[t] => storage' = storage]_vars

C7_Witness ==
    \E t \in Tasks :
        /\ pc[t] = "done" /\ outcome[t] = "errored"
        /\ saved[t] = "ok" /\ Len(RowsOf(t)) = 1
        /\ RowsOf(t)[1].content # << >>

(***************************************************************************)
(* C8  When a session with non-empty content has emitted                   *)
(* assistant_stream_finished, its save of the assistant Message has        *)
(* already completed (with success or with failure).                       *)
(***************************************************************************)
C8_SaveBeforeFinished ==
    \A t \in Tasks :
        FinishedCount(t) = 1 /\ full_content[t] # << >> => saved[t] # "none"

(***************************************************************************)
(* C9  Once a [DONE] event has been delivered on a session's stream, no    *)
(* later content is appended to full_content or emitted as a chunk.        *)
(***************************************************************************)
C9_SentinelEndsDeltas ==
    [][\A t \in Tasks : doneSeen[t] =>
          /\ full_content'[t] = full_content[t]
          /\ ChunkEvents(t)' = ChunkEvents(t)]_vars

(***************************************************************************)
(* C10  An event whose payload, trimmed, is [DONE] is dropped by the       *)
(* pipeline wherever it occurs: it yields no item (neither content nor     *)
(* error), so no chunk is emitted for it and the loop is not left.         *)
(***************************************************************************)
C10_SentinelDropped ==
    [][\A t \in Tasks :
          pc[t] = "map" /\ IsSentinel(frame[t]) /\ pc'[t] # "map" =>
              /\ pc'[t] = "next"
              /\ item'[t] = NoItem
              /\ events'[t] = events[t]
              /\ full_content'[t] = full_content[t]
              /\ outcome'[t] = "pending"]_vars

C10_Witness ==
    \E t \in Tasks :
        /\ doneSeen[t] /\ pc[t] = "next" /\ sent = 2
        /\ Len(ChunkEvents(t)) = 1 /\ outcome[t] = "pending"

(***************************************************************************)
(* C11  A {"type":"ping"} event is dropped wherever it occurs: it yields   *)
(* no item, no event is emitted for it, full_content is unchanged and the  *)
(* loop is not left.  A stream of a ping, one content chunk "a" and [DONE] *)
(* that then closes stores exactly "a".                                    *)
(***************************************************************************)
\* the stream delivered MaxFrames events, among them a ping and [DONE],
\* exactly one content chunk was accepted, and the stream closed
PingScenario(t) ==
    /\ pingSeen[t] /\ doneSeen[t] /\ sent = MaxFrames
    /\ Len(ChunkEvents(t)) = 1 /\ ChunkEvents(t)[1].delta = <<"a">>
    /\ outcome[t] = "completed"

C11_PingDropped ==
    /\ [][\A t \in Tasks :
             pc[t] = "map" /\ IsPing(frame[t]) /\ pc'[t] # "map" =>
                 /\ pc'[t] = "next"
                 /\ item'[t] = NoItem
                 /\ events'[t] = events[t]
                 /\ full_content'[t] = full_content[t]
                 /\ outcome'[t] = "pending"]_vars
    /\ [](\A t \in Tasks :
             PingScenario(t) =>
                 /\ full_content[t] = <<"a">>
                 /\ saved[t] = "ok" =>
                       /\ Len(RowsOf(t)) = 1
                       /\ RowsOf(t)[1].content = <<"a">>)

C11_Witness ==
    \E t \in Tasks :
        /\ PingScenario(t) /\ pc[t] = "done" /\ saved[t] = "ok"
        /\ RowsOf(t)[1].content = <<"a">>

(***************************************************************************)
(* C12  As stated: an event whose payload is not [DONE], not a chunk and   *)
(* not a ping becomes an Err item, and the loop that holds such an item    *)
(* is left as errored.                                                     *)
(***************************************************************************)
\* the payload is not the sentinel, not an OpenAIStreamChunk and not a ping
Unrecognized(ev) ==
    /\ ev.ok
    /\ ~IsSentinel(ev)
    /\ ~IsPing(ev)
    /\ ~ParseChunk(Trim(ev.data)).ok

\* the Err items the map closure makes of a payload
PayloadErrs == {"not_chunk", "not_json"}

C12_AlwaysErrored ==
    [][\A t \in Tasks :
          item[t].tag \in PayloadErrs /\ ~LeftLoop(t) /\ LeftLoop(t)' =>
              outcome'[t] = "errored"]_vars

(***************************************************************************)
(* C12 (amended)  An event whose payload is not [DONE], not a chunk and    *)
(* not a ping becomes an Err item.  The loop stops at that item: it is     *)
(* left as errored, once, or as cancelled when the cancellation mark of    *)
(* the message is found at that item; the item adds nothing to             *)
(* full_content and emits no chunk, and after the loop is left no event is *)
(* taken from the stream, nothing is appended and no chunk is emitted.     *)
(***************************************************************************)
C12_UnrecognizedStops ==
    /\ [][\A t \in Tasks :
             pc[t] = "map" /\ Unrecognized(frame[t]) /\ pc'[t] # "map" =>
                 /\ pc'[t] = "check"
                 /\ item'[t].tag \in PayloadErrs
                 /\ item'[t].tag = "not_json" <=>
                        ~ParseValue(Trim(frame[t].data)).ok]_vars
    /\ [][\A t \in Tasks :
             item[t].tag \in PayloadErrs =>
                 /\ pc'[t] \notin {"next", "map"}
                 /\ full_content'[t] = full_content[t]
                 /\ events'[t] = events[t]
                 /\ ~LeftLoop(t) /\ LeftLoop(t)' =>
                        \/ /\ pc[t] = "dispatch"
                           /\ outcome'[t] = "errored"
                           /\ cause'[t] = item[t].tag
                        \/ /\ pc[t] = "remove"
                           /\ outcome'[t] = "cancelled"
                           /\ cause'[t] = "none"]_vars
    /\ [][\A t \in Tasks :
             LeftLoop(t) =>
                 /\ ~InLoop(t)'
                 /\ outcome'[t] = outcome[t]
                 /\ cause'[t] = cause[t]
                 /\ frame'[t] = frame[t]
                 /\ full_content'[t] = full_content[t]
                 /\ ChunkEvents(t)' = ChunkEvents(t)]_vars

C12_Witness ==
    \E t \in Tasks :
        /\ pc[t] = "done" /\ outcome[t] = "errored"
        /\ cause[t] \in PayloadErrs
        /\ Len(ChunkEvents(t)) = 1 /\ sent = 2

(***************************************************************************)
(* C13  An event whose payload is the object {"choices":[{"delta":         *)
(* {"content":c}}]}, without id, object, created, model and index, is      *)
(* mapped to the content item c, and no session that received only such    *)
(* events and [DONE] ends as errored.                                      *)
(***************************************************************************)
\* the payload is a choices-only object whose first delta has content
IsBareContent(ev) ==
    /\ ev.ok
    /\ \E c \in Fragments : Trim(ev.data) = << JsonTok(BareChunk(c)) >>

C13_BareChunkIsContent ==
    [][\A t \in Tasks :
          pc[t] = "map" /\ IsBareContent(frame[t]) /\ pc'[t] # "map" =>
              /\ pc'[t] = "check"
              /\ item'[t] = OkSome(Trim(frame[t].data)[1].v.choices[1].content)
              /\ outcome'[t] # "errored"]_vars

(***************************************************************************)
(* C14  As stated: an event whose payload is a JSON object with a type,    *)
(* whatever its value, yields no item and does not end the loop.           *)
(***************************************************************************)
\* the payload is an object that carries only a type discriminator
IsTyped(ev) == IsPing(ev) \/ IsOtherType(ev)

C14_AnyTypeTolerated ==
    [][\A t \in Tasks :
          pc[t] = "map" /\ IsTyped(frame[t]) /\ pc'[t] # "map" =>
              /\ item'[t].tag \notin PayloadErrs \cup {"decode"}
              /\ pc'[t] = "next"]_vars

(***************************************************************************)
(* C14 (amended)  Of the objects that carry only a type discriminator, the *)
(* one whose type is "ping" is tolerated: it yields no item and the loop   *)
(* polls the stream again.  One whose type has another value is an Err     *)
(* item, and a loop that dispatches that item is left as errored.          *)
(***************************************************************************)
C14_OnlyPingTolerated ==
    /\ [][\A t \in Tasks :
             pc[t] = "map" /\ IsTyped(frame[t]) /\ pc'[t] # "map" =>
                 IF Trim(frame[t].data)[1].v.type = "ping"
                 THEN pc'[t] = "next" /\ item'[t].tag = "noitem"
                 ELSE pc'[t] = "check" /\ item'[t].tag = "not_chunk"]_vars
    /\ [](\A t \in Tasks :
             otherSeen[t] /\ LeftLoop(t) =>
                 /\ outcome[t] \in {"errored", "cancelled"}
                 /\ outcome[t] = "errored" => cause[t] = "not_chunk")

C14_Witness ==
    \E t \in Tasks :
        /\ otherSeen[t] /\ sent = 1 /\ pc[t] = "done"
        /\ outcome[t] = "errored" /\ cause[t] = "not_chunk"

(***************************************************************************)
(* C15  When an Err item (event decode error or payload error) ends the    *)
(* loop after k content items were accepted, full_content is the           *)
(* concatenation of those k fragments and is not touched by the error;     *)
(* once the task is done, assistant_stream_finished was emitted once,      *)
(* every stored row of the message holds that concatenation, and when it   *)
(* is not empty and the INSERT succeeded there is exactly one such row.    *)
(***************************************************************************)
C15_ErrorKeepsPartial ==
    /\ [][\A t \in Tasks :
             pc[t] = "dispatch" /\ item[t].tag \in PayloadErrs \cup {"decode"}
             /\ pc'[t] # "dispatch" =>
                 /\ pc'[t] = AfterLoop(t)
                 /\ outcome'[t] = "errored"
                 /\ full_content'[t] = full_content[t]
                 /\ events'[t] = events[t]]_vars
    /\ [](\A t \in Tasks :
             outcome[t] = "errored" =>
                 /\ full_content[t] = ConcatDeltas(ChunkEvents(t))
                 /\ \A i \in 1..Len(RowsOf(t)) :
                        RowsOf(t)[i].content = full_content[t]
                 /\ pc[t] = "done" =>
                        /\ FinishedCount(t) = 1
                        /\ full_content[t] # << >> => saved[t] # "none"
                        /\ saved[t] \in {"ok", "update_failed"} =>
                               Len(RowsOf(t)) = 1)

C15_Witness ==
    \E t \in Tasks :
        /\ pc[t] = "done" /\ outcome[t] = "errored" /\ cause[t] = "decode"
        /\ Len(ChunkEvents(t)) = 2 /\ saved[t] = "ok"
        /\ RowsOf(t)[1].content = <<"a", "b">>

(***************************************************************************)
(* C16  A turn whose history, conversation/model configuration or API key  *)
(* could not be loaded has returned Err to the caller of its command, has  *)
(* made no request (no api_messages were built), has no message id and     *)
(* has emitted no event.                                                   *)
(***************************************************************************)
\* the task gave up before api_messages were built
SetupFailed(t) == pc[t] = "exited" /\ api_messages[t] = << >>

C16_SetupFailureReturned ==
    \A t \in Tasks :
        SetupFailed(t) =>
            /\ ret[t] = "err"
            /\ assistant_message_id[t] = NilUuid
            /\ events[t] = << >>

(***************************************************************************)
(* C17  send_message saves the user message before it returns Ok and       *)
(* before its background task runs: a send_message that returned Ok, or    *)
(* whose task has started, has its user message in the messages table.     *)
(* When the save fails the command returns Err and stays there: no task    *)
(* runs, no history is loaded, no api_messages are built, no message id is *)
(* allocated and no event is emitted.                                      *)
(***************************************************************************)
\* the rows of the messages table that are the task's user message
UserRows(t) == SelectSeq(storage, LAMBDA m : m = user_message[t])

\* the positions of send_message before the task is spawned
BeforeSpawn == {"idle", "rejected", "cmd_lock", "cmd_save", "failed"}

C17_UserSavedFirst ==
    /\ [](\A t \in Tasks :
             kind[t] = "send" =>
                 /\ ret[t] = "ok" \/ pc[t] \notin BeforeSpawn =>
                        /\ Len(UserRows(t)) = 1
                        /\ ret[t] = "ok"
                 /\ ret[t] = "err" =>
                        /\ pc[t] \in {"rejected", "failed"}
                        /\ messages[t] = << >>
                        /\ api_messages[t] = << >>
                        /\ assistant_message_id[t] = NilUuid
                        /\ events[t] = << >>)
    /\ [][\A t \in Tasks :
             /\ pc[t] = "cmd_save" /\ pc'[t] # "cmd_save" =>
                    \/ pc'[t] = "hist_lock" /\ ret'[t] = "ok"
                    \/ pc'[t] = "failed" /\ ret'[t] = "err"
             /\ pc[t] = "failed" => pc'[t] = "failed"]_vars

C17_Witness ==
    \E t \in Tasks :
        /\ kind[t] = "send" /\ pc[t] = "failed" /\ ret[t] = "err"
        /\ user_message[t] # NoMsg /\ Len(UserRows(t)) = 0

(***************************************************************************)
(* C18  When send_chat_stream_request returns Err the task returns: no     *)
(* message id was allocated, no assistant_stream_started,                  *)
(* assistant_message_chunk or assistant_stream_finished event is emitted,  *)
(* no save is attempted, the messages table holds no assistant row the     *)
(* task wrote, and the task stays returned.                                *)
(***************************************************************************)
\* the task built its api_messages and returned without a stream
RequestFailed(t) == pc[t] = "exited" /\ api_messages[t] # << >>

\* the assistant rows of the messages table
AssistantRows == SelectSeq(storage, LAMBDA m : m.role = "assistant")

C18_RequestFailureSilent ==
    /\ [](\A t \in Tasks :
             RequestFailed(t) =>
                 /\ assistant_message_id[t] = NilUuid
                 /\ events[t] = << >>
                 /\ saved[t] = "none"
                 /\ outcome[t] = "pending"
                 /\ \A i \in 1..Len(AssistantRows) :
                        \E j \in 1..Len(InitialRows) :
                            AssistantRows[i] = InitialRows[j])
    /\ [][\A t \in Tasks :
             RequestFailed(t) =>
                 /\ pc'[t] = "exited"
                 /\ events'[t] = events[t]
                 /\ storage' = storage]_vars

C18_Witness ==
    \E t \in Tasks :
        /\ RequestFailed(t) /\ ret[t] = "ok" /\ kind[t] = "regen"
        /\ Len(api_messages[t]) = 2 /\ Len(AssistantRows) = 0

(***************************************************************************)
(* C19  A send_message task whose emit of assistant_stream_started failed  *)
(* returns at once and stays returned: it has a message id but no event    *)
(* at all, it took no event from the stream and no item, full_content is   *)
(* empty, no save was attempted and no row of the messages table carries   *)
(* its message id.                                                         *)
(***************************************************************************)
\* the message id was allocated and assistant_stream_started is not among
\* the task's events
StartNotDelivered(t) ==
    /\ kind[t] = "send"
    /\ assistant_message_id[t] # NilUuid
    /\ StartedCount(t) = 0

C19_AbortOnStartFailure ==
    /\ [](\A t \in Tasks :
             StartNotDelivered(t) =>
                 /\ pc[t] = "aborted"
                 /\ events[t] = << >>
                 /\ frame[t] = NoEvent /\ item[t] = NoItem
                 /\ full_content[t] = << >>
                 /\ outcome[t] = "pending"
                 /\ saved[t] = "none"
                 /\ RowsOf(t) = << >>)
    /\ [][\A t \in Tasks :
             pc[t] = "aborted" =>
                 /\ pc'[t] = "aborted"
                 /\ sent' = sent
                 /\ storage' = storage]_vars

C19_Witness ==
    \E t \in Tasks :
        /\ StartNotDelivered(t) /\ pc[t] = "aborted" /\ ret[t] = "ok"
        /\ sent = 0 /\ assistant_message_id[t] \in cancelled_streams

(***************************************************************************)
(* C20  When save_message of the assistant message returns Err (the INSERT *)
(* or the UPDATE of the conversation failed) the task goes on as after a   *)
(* successful save: it emits, or has emitted, assistant_stream_finished    *)
(* with its message id exactly once and ends normally.                     *)
(***************************************************************************)
\* the outcomes of save_message that are Err
SaveFailures == SaveOutcomes \ {"ok"}

C20_FinishedDespiteSaveFailure ==
    /\ [](\A t \in Tasks :
             saved[t] \in SaveFailures =>
                 /\ pc[t] \in {"emit_fin", "done"}
                 /\ FinishedCount(t) = (IF pc[t] = "done" THEN 1 ELSE 0)
                 /\ pc[t] = "done" =>
                        events[t][Len(events[t])] = FinishedEvent(t))
    /\ \A t \in Tasks :
           saved[t] \in SaveFailures ~> (pc[t] = "done" /\ FinishedCount(t) = 1)

C20_Witness ==
    \E t \in Tasks :
        /\ kind[t] = "send" /\ saved[t] = "insert_failed" /\ pc[t] = "done"
        /\ full_content[t] # << >> /\ RowsOf(t) = << >>
        /\ FinishedCount(t) = 1

(***************************************************************************)
(* C21  send_message and regenerate_last_response return before the        *)
(* request is made: a task that is at the request or in its loop belongs   *)
(* to a command that has returned Ok, and every invoked command returns    *)
(* although no event is ever delivered and the stream never closes (only   *)
(* the command's own steps are assumed to be taken).                       *)
(***************************************************************************)
\* the task is at send_chat_stream_request or awaits delta_stream.next()
AtNetwork(t) == pc[t] \in {"bg_request", "next"}

C21_ReturnsWithoutWaiting ==
    /\ [](\A t \in Tasks :
             AtNetwork(t) \/ InLoop(t) \/ LeftLoop(t) => ret[t] = "ok")
    /\ [][\A t \in Tasks : ret[t] # "none" => ret'[t] = ret[t]]_vars
    /\ \A t \in Tasks : (kind[t] # "none") ~> (ret[t] # "none")

C21_Witness ==
    \E t \in Tasks :
        /\ ret[t] = "ok" /\ pc[t] = "next" /\ sent = 0
        /\ events[t] = << >> /\ kind[t] = "regen"

(***************************************************************************)
(* C22  The deltas of the assistant_message_chunk events of a task are, in *)
(* order and one event per item, the content items its delta_stream has    *)
(* yielded: they are a prefix of those items that lacks at most the item   *)
(* in hand (or the item dropped by a cancellation), and all of them when   *)
(* the loop awaits the next item.  Events are only ever appended.          *)
(***************************************************************************)
\* the deltas of the task's chunk events, in emission order
Deltas(t) == [i \in 1..Len(ChunkEvents(t)) |-> ChunkEvents(t)[i].delta]

\* the task holds a content item it has not dispatched yet
ContentInHand(t) ==
    pc[t] \in {"check", "remove", "dispatch"} /\ item[t].tag = "content"

C22_ChunksInStreamOrder ==
    /\ [](\A t \in Tasks :
             /\ Len(Deltas(t)) <= Len(produced[t])
             /\ Deltas(t) = SubSeq(produced[t], 1, Len(Deltas(t)))
             /\ ContentInHand(t) =>
                    produced[t] = Append(Deltas(t), item[t].content)
             /\ ~ContentInHand(t) /\ outcome[t] # "cancelled" =>
                    produced[t] = Deltas(t)
             /\ Len(produced[t]) <= Len(Deltas(t)) + 1)
    /\ [][\A t \in Tasks :
             /\ Len(events'[t]) >= Len(events[t])
             /\ SubSeq(events'[t], 1, Len(events[t])) = events[t]
             /\ ContentInHand(t) => produced'[t] = produced[t]]_vars

C22_Witness ==
    \E t \in Tasks :
        /\ produced[t] = << <<"b">>, <<"a">>, <<"b">> >>
        /\ Deltas(t) = produced[t] /\ pc[t] = "next"

(***************************************************************************)
(* C24  stop_generation is idempotent: a call only ever adds its id to     *)
(* cancelled_streams, and a call for an id that is already marked changes  *)
(* neither the map nor anything a task reads or writes.  One removal by    *)
(* the task clears the mark however often it was set.                      *)
(***************************************************************************)
\* what the commands and tasks read and write, without the record of
\* repeated stop_generation calls
programVars ==
    << pc, kind, ret, conversation_id, user_message, messages, api_messages,
       assistant_message_id, full_content, frame, item, outcome, saved,
       events, storage, lock, nextId, sent >>

C24_StopIdempotent ==
    /\ [][pc' = pc =>
             /\ cancelled_streams \subseteq cancelled_streams'
             /\ Cardinality(cancelled_streams' \ cancelled_streams) <= 1
             /\ UNCHANGED programVars]_vars
    /\ [][\A t \in Tasks :
             ~remarked[t] /\ remarked'[t] =>
                 /\ cancelled_streams' = cancelled_streams
                 /\ assistant_message_id[t] \in cancelled_streams
                 /\ UNCHANGED programVars]_vars
    /\ [][\A t \in Tasks :
             remarked[t] /\ pc[t] = "remove" /\ pc'[t] # "remove" =>
                 assistant_message_id[t] \notin cancelled_streams']_vars

C24_Witness ==
    \E t \in Tasks :
        /\ remarked[t] /\ outcome[t] = "cancelled" /\ pc[t] = "done"
        /\ cancelled_streams = {}

(***************************************************************************)
(* C23  With two sessions streaming at once, the entry of one message id   *)
(* concerns only the session with that id: a loop goes to its break        *)
(* exactly when its own id is in cancelled_streams at the test, whatever   *)
(* other ids are there; a content item that passed the test is appended    *)
(* and emitted; and an entry leaves the map only by the remove of the      *)
(* session whose id it is.  The two sessions have different ids.           *)
(***************************************************************************)
C23_MarkIsPerSession ==
    /\ [](\A t, u \in Tasks :
             t # u /\ assistant_message_id[t] # NilUuid =>
                 assistant_message_id[t] # assistant_message_id[u])
    /\ [][\A t \in Tasks :
             /\ pc[t] = "check" /\ pc'[t] # "check" =>
                    IF assistant_message_id[t] \in cancelled_streams
                    THEN pc'[t] = "remove" ELSE pc'[t] = "dispatch"
             /\ pc[t] = "dispatch" /\ pc'[t] # "dispatch"
                /\ item[t].tag = "content" =>
                    /\ ChunkEvents(t)' =
                           Append(ChunkEvents(t), ChunkEvent(t, item[t].content))
                    /\ pc'[t] = "next" /\ outcome'[t] = "pending"]_vars
    /\ [][\A x \in cancelled_streams \ cancelled_streams' :
             \E t \in Tasks :
                 /\ assistant_message_id[t] = x
                 /\ pc[t] = "remove" /\ pc'[t] # "remove"]_vars

C23_Witness ==
    \E t, u \in Tasks :
        /\ t # u
        /\ outcome[t] = "cancelled" /\ ChunkEvents(t) = << >>
        /\ assistant_message_id[t] \in cancelled_streams
        /\ outcome[u] = "completed" /\ Len(ChunkEvents(u)) = 2
        /\ pc[u] = "done"

(***************************************************************************)
(* C25  stop_generation for an id of no session, or of a session that has  *)
(* left its loop, is without effect on every session: the call changes     *)
(* nothing but the map; the entry is never removed, since no loop tests    *)
(* that id any more; a session that has left its loop never tests the map  *)
(* again; and a session that starts later gets an id that is not in the    *)
(* map, so no entry made before it exists can stop it.                     *)
(***************************************************************************)
\* x is the message id of no session that is, or may still get, in its loop
StaleId(x) ==
    \A t \in Tasks : assistant_message_id[t] = x => LeftLoop(t)

C25_StaleStopIsNoOp ==
    /\ [][cancelled_streams' # cancelled_streams /\ pc' = pc =>
             /\ \A t \in Tasks :
                    /\ events'[t] = events[t]
                    /\ full_content'[t] = full_content[t]
                    /\ outcome'[t] = outcome[t]
             /\ storage' = storage]_vars
    /\ [][\A x \in cancelled_streams :
             StaleId(x) => x \in cancelled_streams' /\ StaleId(x)']_vars
    /\ [][\A t \in Tasks :
             /\ LeftLoop(t) => pc'[t] \notin {"check", "remove", "dispatch"}
             /\ assistant_message_id[t] = NilUuid
                /\ assistant_message_id'[t] # NilUuid =>
                    assistant_message_id'[t] \notin cancelled_streams]_vars

C25_Witness ==
    \E t, u \in Tasks :
        /\ t # u
        /\ outcome[t] = "cancelled" /\ pc[t] = "done"
        /\ {assistant_message_id[t], UnknownUuid} \subseteq cancelled_streams
        /\ assistant_message_id[u] > assistant_message_id[t]
        /\ outcome[u] = "completed" /\ pc[u] = "done"
        /\ Len(ChunkEvents(u)) = 2
        /\ Len(RowsOf(u)) = 1 /\ RowsOf(u)[1].content = <<"a", "a">>

(***************************************************************************)
(* C26  Once the id of a session that is in its loop is in                 *)
(* cancelled_streams, the session accepts at most the item it had already  *)
(* tested: nothing is appended or emitted except by the dispatch of that   *)
(* item, the mark stays while the session is in its loop, the next item's  *)
(* test goes to the break, and the break leaves the loop as cancelled      *)
(* without appending or emitting the item.                                 *)
(***************************************************************************)
\* the task's message id is in the map
Marked(t) == assistant_message_id[t] \in cancelled_streams

C26_ObservedWithinOneItem ==
    /\ [][\A t \in Tasks :
             Marked(t) /\ InLoop(t) =>
                 /\ pc[t] # "dispatch" =>
                        /\ events'[t] = events[t]
                        /\ full_content'[t] = full_content[t]
                 /\ pc[t] = "dispatch" =>
                        Len(ChunkEvents(t)') <= Len(ChunkEvents(t)) + 1
                 /\ pc[t] = "check" /\ pc'[t] # "check" => pc'[t] = "remove"
                 /\ pc[t] = "remove" /\ pc'[t] # "remove" =>
                        /\ outcome'[t] = "cancelled"
                        /\ item'[t] = NoItem
                        /\ ~InLoop(t)'
                 /\ InLoop(t)' => Marked(t)']_vars
    /\ [](\A t \in Tasks :
             Marked(t) /\ pc[t] \in {"next", "map"} =>
                 produced[t] = Deltas(t))

C26_Witness ==
    \E t \in Tasks :
        /\ outcome[t] = "cancelled" /\ pc[t] = "done"
        /\ produced[t] = << <<"a">>, <<"b">> >>
        /\ Deltas(t) = << <<"a">> >>
        /\ full_content[t] = <<"a">>

(***************************************************************************)
(* C27  As stated: the step of regenerate_last_response that loads the     *)
(* history removes exactly one row from the messages table, the last       *)
(* assistant message of the conversation, and the history it keeps is the  *)
(* rows of the conversation before that row, in stored order.              *)
(***************************************************************************)
\* the rows of the task's conversation, in stored order
ConvRows(t) == SelectSeq(storage, LAMBDA m : m.conversation_id = conv_uuid(t))

\* k is the place of the last assistant message among the conversation's
\* rows
IsLastAssistant(t, k) ==
    /\ k \in 1..Len(ConvRows(t))
    /\ ConvRows(t)[k].role = "assistant"
    /\ \A j \in (k + 1)..Len(ConvRows(t)) : ConvRows(t)[j].role # "assistant"

\* rows without its p-th row
WithoutRow(rows, p) == SubSeq(rows, 1, p - 1) \o SubSeq(rows, p + 1, Len(rows))

\* the step removes the row m and nothing else
DeletesOnly(m) ==
    \E p \in 1..Len(storage) :
        storage[p] = m /\ storage' = WithoutRow(storage, p)

\* the command has loaded the history and goes on to the configuration
HistoryLoaded(t) == pc[t] = "rg_load" /\ pc'[t] = "rg_cfg"

C27_DeletesLastAssistant ==
    [][\A t \in Tasks :
          HistoryLoaded(t) =>
              \E k \in 1..Len(ConvRows(t)) :
                  /\ IsLastAssistant(t, k)
                  /\ messages'[t] = SubSeq(ConvRows(t), 1, k - 1)
                  /\ DeletesOnly(ConvRows(t)[k])]_vars

(***************************************************************************)
(* C27 (amended)  The step keeps as history the rows of the conversation   *)
(* before its last assistant message, in stored order, and calls           *)
(* delete_message for that message: when the delete succeeds exactly that  *)
(* row is removed, when it fails the table is left as it was and the       *)
(* command goes on all the same.  No other step removes a row, a           *)
(* conversation without assistant message makes the command fail, and the  *)
(* api_messages are the system prompt followed by that history.            *)
(***************************************************************************)
C27_DeletesLastAssistantIfAny ==
    /\ [][\A t \in Tasks :
             HistoryLoaded(t) =>
                 \E k \in 1..Len(ConvRows(t)) :
                     /\ IsLastAssistant(t, k)
                     /\ messages'[t] = SubSeq(ConvRows(t), 1, k - 1)
                     /\ DeletesOnly(ConvRows(t)[k]) \/ storage' = storage]_vars
    /\ [][Len(storage') < Len(storage) =>
             \E t \in Tasks : HistoryLoaded(t)]_vars
    /\ [][\A t \in Tasks :
             pc[t] = "rg_load" /\ pc'[t] # "rg_load"
             /\ (\A k \in 1..Len(ConvRows(t)) : ~IsLastAssistant(t, k)) =>
                 /\ pc'[t] = "failed" /\ ret'[t] = "err"
                 /\ storage' = storage]_vars
    /\ [](\A t \in Tasks :
             kind[t] = "regen" /\ api_messages[t] # << >> =>
                 api_messages[t] = << SystemPrompt(t) >> \o messages[t])

C27_Witness ==
    \E t \in Tasks :
        /\ pc[t] = "bg_request"
        /\ messages[t] = << Msg(1, ConvUuid, "user", <<"q">>),
                            Msg(2, ConvUuid, "assistant", <<"r">>) >>
        /\ storage = messages[t]
        /\ nextId = 4
        /\ api_messages[t] = << SystemPrompt(t) >> \o messages[t]

(***************************************************************************)
(* C28  The storage lock is held only at the storage calls: a slot holds   *)
(* it exactly while it is at the save of the user message, the loads of    *)
(* history and configuration, or the final save.  It is not held from the  *)
(* API key lookup on, through the request and the loop, and a task that    *)
(* has its message id takes the lock only after its loop, for the final    *)
(* save, and not again after that save.                                    *)
(***************************************************************************)
\* the positions at which the slot holds the guard of state.storage
UnderLock == {"cmd_save", "bg_hist", "bg_cfg", "rg_load", "rg_cfg", "fin_save"}

C28_NoLockAcrossNetwork ==
    /\ [](\A t \in Tasks :
             /\ lock = t <=> pc[t] \in UnderLock
             /\ AtNetwork(t) \/ InLoop(t) => lock # t)
    /\ [][\A t \in Tasks :
             /\ assistant_message_id[t] # NilUuid /\ lock # t /\ lock' = t =>
                    /\ pc'[t] = "fin_save"
                    /\ LeftLoop(t) /\ saved[t] = "none"
             /\ saved[t] # "none" => lock' # t]_vars

C28_Witness ==
    \E t \in Tasks :
        /\ kind[t] = "regen" /\ pc[t] = "fin_save" /\ lock = t
        /\ outcome[t] = "completed" /\ Len(ChunkEvents(t)) = 2

(***************************************************************************)
(* C29  contains_key followed by remove acts as one check_and_clear of the *)
(* task's id, whatever stop_generation calls come in between: the loop     *)
(* goes to the break exactly when the id is in the map at the test; from   *)
(* the test to the remove the id stays in the map, a stop_generation in    *)
(* between changing nothing; and the remove takes exactly that id out,     *)
(* so the mark is not in the map when the loop has been left by the break. *)
(***************************************************************************)
C29_CheckAndClearAtomic ==
    /\ [][\A t \in Tasks :
             /\ pc[t] = "check" /\ pc'[t] # "check" =>
                    (pc'[t] = "remove" <=> Marked(t))
             /\ pc[t] = "remove" /\ pc'[t] = "remove" =>
                    /\ Marked(t)'
                    /\ item'[t] = item[t] /\ events'[t] = events[t]
                    /\ full_content'[t] = full_content[t]
             /\ pc[t] = "remove" /\ pc'[t] # "remove" =>
                    /\ cancelled_streams' =
                           cancelled_streams \ {assistant_message_id[t]}
                    /\ outcome'[t] = "cancelled"]_vars
    /\ [](\A t \in Tasks : pc[t] = "remove" => Marked(t))

C29_Witness ==
    \E t \in Tasks :
        /\ pc[t] = "remove" /\ remarked[t] /\ Marked(t)
        /\ item[t].tag = "content" /\ Len(ChunkEvents(t)) = 1

(***************************************************************************)
(* C30  As stated: the break is taken at most once per session and removes *)
(* the entry, and a session that has finished has no entry of its message  *)
(* id in cancelled_streams.                                                *)
(***************************************************************************)
\* the task has returned after its loop
Finished(t) == pc[t] = "done"

C30_NoEntryAfterFinish ==
    \A t \in Tasks : Finished(t) => ~Marked(t)

(***************************************************************************)
(* C30 (amended)  The break is taken at most once per session: it removes  *)
(* the entry and ends the loop, and the map is not tested again.  An entry *)
(* that the session does not find at a test, because it is inserted after  *)
(* the break or after the loop has ended, is never removed and is still in *)
(* the map after the session has finished.                                 *)
(***************************************************************************)
C30_ConsumedAtMostOnce ==
    [][\A t \in Tasks :
          /\ pc[t] = "remove" /\ pc'[t] # "remove" =>
                 /\ ~Marked(t)' /\ LeftLoop(t)'
                 /\ pc'[t] = AfterLoop(t)
          /\ LeftLoop(t) =>
                 /\ pc'[t] \notin {"check", "remove"}
                 /\ Marked(t) => Marked(t)'
          /\ ~Marked(t) /\ Marked(t)' => pc' = pc]_vars

C30_Witness ==
    \E t \in Tasks :
        /\ Finished(t) /\ outcome[t] = "cancelled" /\ Marked(t)
        /\ FinishedCount(t) = 1 /\ ~remarked[t]

(***************************************************************************)
(* C31  Every item delta_stream yields is tested against cancelled_streams *)
(* before it reaches the match: the match is entered only from a test that *)
(* found no entry.  When the test finds the entry, the item in hand is     *)
(* dropped: a content item is neither appended nor emitted, an Err item    *)
(* does not make the loop end as errored, and the task takes no further    *)
(* event from the stream.                                                  *)
(***************************************************************************)
C31_CheckBeforeDispatch ==
    /\ [][\A t \in Tasks :
             /\ pc[t] = "map" /\ pc'[t] # "map" =>
                    pc'[t] = (IF Passes(MapEvent(frame[t]))
                              THEN "check" ELSE "next")
             /\ pc[t] # "dispatch" /\ pc'[t] = "dispatch" =>
                    pc[t] = "check" /\ ~Marked(t)
             /\ pc[t] = "remove" /\ pc'[t] # "remove" =>
                    /\ full_content'[t] = full_content[t]
                    /\ events'[t] = events[t]
                    /\ outcome'[t] = "cancelled" /\ cause'[t] = "none"
                    /\ item'[t] = NoItem
             /\ outcome[t] = "cancelled" =>
                    /\ pc'[t] \notin {"next", "map", "check", "dispatch"}
                    /\ frame'[t] = frame[t] /\ item'[t] = item[t]
                    /\ produced'[t] = produced[t]
                    /\ cause'[t] = "none"]_vars
    /\ [](\A t \in Tasks : pc[t] = "dispatch" => item[t] # NoItem)

C31_Witness ==
    \E t \in Tasks :
        /\ outcome[t] = "cancelled" /\ pc[t] = "done" /\ cause[t] = "none"
        /\ Len(produced[t]) = 2 /\ Len(Deltas(t)) = 1
        /\ sent = 2 /\ full_content[t] = produced[t][1]

(***************************************************************************)
(* C32  full_content only grows, and only at its end: every step leaves it *)
(* as it is or, at the match of a content item, appends that item's        *)
(* fragment, so the value before a step is a prefix of the value after it. *)
(* What has been accumulated is the fragments accepted so far, in order.   *)
(***************************************************************************)
\* p is a prefix of s
IsPrefix(p, s) == Len(p) <= Len(s) /\ SubSeq(s, 1, Len(p)) = p

RECURSIVE Concat(_)
Concat(ss) == IF ss = << >> THEN << >> ELSE Head(ss) \o Concat(Tail(ss))

C32_ContentOnlyAppended ==
    /\ [][\A t \in Tasks :
             /\ IsPrefix(full_content[t], full_content'[t])
             /\ \/ full_content'[t] = full_content[t]
                \/ /\ pc[t] = "dispatch" /\ item[t].tag = "content"
                   /\ full_content'[t] = full_content[t] \o item[t].content
                   /\ produced[t][Len(produced[t])] = item[t].content]_vars
    /\ [](\A t \in Tasks :
             full_content[t] = Concat(SubSeq(produced[t], 1, Len(Deltas(t)))))

C32_Witness ==
    \E t \in Tasks :
        /\ full_content[t] = <<"a", "b", "a">> /\ pc[t] = "next"
        /\ Len(produced[t]) = 3

(***************************************************************************)
(* C33  The api_messages of a task are the system prompt followed by the   *)
(* history the task loaded, and nothing else has the role system.  The     *)
(* history is the rows of the conversation in the order storage returns    *)
(* them: all of them for send_message, those before the last assistant     *)
(* message for regenerate_last_response.  send_message loads the history   *)
(* when its user message is already in the table, so the api_messages of   *)
(* its task contain that user message.                                     *)
(***************************************************************************)
\* the task takes the history and releases the lock
SendHistoryLoaded(t) == pc[t] = "bg_hist" /\ pc'[t] = "cfg_lock"

\* the places of m in the sequence ms
PlacesOf(m, ms) == { i \in 1..Len(ms) : ms[i] = m }

C33_SystemThenHistory ==
    /\ [](\A t \in Tasks :
             api_messages[t] # << >> =>
                 /\ api_messages[t][1] = SystemPrompt(t)
                 /\ Tail(api_messages[t]) = messages[t]
                 /\ \A i \in 2..Len(api_messages[t]) :
                        api_messages[t][i].role # "system"
                 /\ kind[t] = "send" =>
                        Cardinality(PlacesOf(user_message[t],
                                             api_messages[t])) = 1)
    /\ [](\A t \in Tasks :
             kind[t] = "send" /\ pc[t] = "bg_hist" => Len(UserRows(t)) = 1)
    /\ [][\A t \in Tasks :
             /\ SendHistoryLoaded(t) => messages'[t] = ConvRows(t)
             /\ HistoryLoaded(t) => IsPrefix(messages'[t], ConvRows(t))
             /\ messages'[t] # messages[t] =>
                    SendHistoryLoaded(t) \/ HistoryLoaded(t)]_vars

C33_Witness ==
    \E t \in Tasks :
        /\ kind[t] = "send" /\ pc[t] = "bg_request"
        /\ api_messages[t] = << SystemPrompt(t) >> \o InitialRows
                                 \o << user_message[t] >>

(***************************************************************************)
(* C34  An event whose payload parses as an OpenAIStreamChunk without      *)
(* content (the first choice's delta has no content, or choices is empty)  *)
(* is dropped by the pipeline: it yields no item, so no event is emitted   *)
(* for it, full_content is unchanged, the loop is not left and the stream  *)
(* is polled again.                                                        *)
(***************************************************************************)
\* the payload is a chunk whose first choice carries no content
IsContentless(ev) ==
    /\ ev.ok
    /\ ParseChunk(Trim(ev.data)).ok
    /\ \/ Len(ParseChunk(Trim(ev.data)).v.choices) = 0
       \/ ~ParseChunk(Trim(ev.data)).v.choices[1].hasContent

C34_ContentlessChunkDropped ==
    [][\A t \in Tasks :
          pc[t] = "map" /\ IsContentless(frame[t]) /\ pc'[t] # "map" =>
              /\ pc'[t] = "next"
              /\ item'[t] = NoItem
              /\ events'[t] = events[t]
              /\ produced'[t] = produced[t]
              /\ full_content'[t] = full_content[t]
              /\ outcome'[t] = "pending" /\ cause'[t] = "none"]_vars

\* two events were delivered, one was accepted as content and the other,
\* neither [DONE] nor a ping, left no trace: the loop awaits the third
C34_Witness ==
    \E t \in Tasks :
        /\ sent = 2 /\ pc[t] = "next" /\ outcome[t] = "pending"
        /\ ~doneSeen[t] /\ ~pingSeen[t]
        /\ produced[t] = << <<"a">> >> /\ Len(events[t]) = 2
        /\ full_content[t] = <<"a">>

(***************************************************************************)
(* C35  A session only moves forward: from no session to its loop, from    *)
(* the loop to one of completed, cancelled and errored, which is set once, *)
(* on leaving the loop, and never changed.  A task that has left its loop  *)
(* takes no further event or item from the stream, and its                 *)
(* assistant_stream_finished event is the last event it emits: no          *)
(* assistant_stream_started or assistant_message_chunk comes after it.     *)
(***************************************************************************)
Terminal == {"completed", "cancelled", "errored"}

\* 0: no stream yet, 1: in the loop, 2: the loop has been left
SessionRank(t) == IF LeftLoop(t) THEN 2 ELSE IF InLoop(t) THEN 1 ELSE 0

C35_ForwardOnly ==
    /\ [](\A t \in Tasks :
             /\ outcome[t] \in Terminal \cup {"pending"}
             /\ ~(InLoop(t) /\ LeftLoop(t))
             /\ Finished(t) => LeftLoop(t)
             /\ LeftLoop(t) => frame[t] = NoEvent /\ item[t] = NoItem
             /\ FinishedCount(t) > 0 =>
                    /\ LeftLoop(t)
                    /\ events[t][Len(events[t])] = FinishedEvent(t))
    /\ [][\A t \in Tasks :
             /\ SessionRank(t)' >= SessionRank(t)
             /\ outcome'[t] # outcome[t] =>
                    /\ outcome[t] = "pending" /\ InLoop(t)
                    /\ ~InLoop(t)' /\ outcome'[t] \in Terminal
             /\ LeftLoop(t) =>
                    /\ frame'[t] = frame[t] /\ item'[t] = item[t]
                    /\ produced'[t] = produced[t]
                    /\ StartedCount(t)' = StartedCount(t)
                    /\ ChunkEvents(t)' = ChunkEvents(t)
             /\ FinishedCount(t) > 0 => events'[t] = events[t]]_vars

C35_Witness ==
    \E t \in Tasks :
        /\ Finished(t) /\ outcome[t] = "completed" /\ kind[t] = "regen"
        /\ sent = 2 /\ Len(ChunkEvents(t)) = 2 /\ saved[t] = "ok"
        /\ events[t][3] = FinishedEvent(t)

(***************************************************************************)
(* C36  With a send_message session and a regenerate_last_response session *)
(* running at once, under every interleaving: the two have different       *)
(* message ids; every assistant_message_chunk of a session carries that    *)
(* session's id and a fragment of its own stream; full_content and the     *)
(* stored row of a session are the fragments of its own stream, in order;  *)
(* and a step of one session in or after its loop, its termination by end, *)
(* cancellation or error included, changes neither the events, the         *)
(* content, the outcome, the cancellation mark nor the stored row of the   *)
(* other.                                                                  *)
(***************************************************************************)
\* slot u takes a step in its loop or after it
SessionStep(u) == pc'[u] # pc[u] /\ (InLoop(u) \/ LeftLoop(u))

C36_SessionsIndependent ==
    /\ [](\A t \in Tasks :
             /\ \A u \in Tasks \ {t} :
                    assistant_message_id[t] # NilUuid =>
                        assistant_message_id[t] # assistant_message_id[u]
             /\ \A i \in 1..Len(ChunkEvents(t)) :
                    /\ ChunkEvents(t)[i].messageId =
                           to_string(assistant_message_id[t])
                    /\ ChunkEvents(t)[i].delta = OwnFragment(t)
             /\ IsPrefix(Deltas(t), produced[t])
             /\ full_content[t] = Concat(Deltas(t))
             /\ \A i \in 1..Len(full_content[t]) :
                    << full_content[t][i] >> = OwnFragment(t)
             /\ assistant_message_id[t] # NilUuid =>
                    /\ Len(RowsOf(t)) <= 1
                    /\ \A i \in 1..Len(RowsOf(t)) :
                           RowsOf(t)[i].content = full_content[t])
    /\ [][\A t, u \in Tasks :
             t # u /\ SessionStep(u) =>
                 /\ events'[t] = events[t]
                 /\ full_content'[t] = full_content[t]
                 /\ produced'[t] = produced[t]
                 /\ item'[t] = item[t]
                 /\ outcome'[t] = outcome[t]
                 /\ pc'[t] = pc[t]
                 /\ Marked(t)' = Marked(t)
                 /\ RowsOf(t)' = RowsOf(t)]_vars

C36_Witness ==
    /\ outcome["t1"] = "cancelled" /\ Finished("t1")
    /\ outcome["t2"] = "completed" /\ Finished("t2")
    /\ Len(RowsOf("t1")) = 1 /\ RowsOf("t1")[1].content = <<"a">>
    /\ Len(RowsOf("t2")) = 1 /\ RowsOf("t2")[1].content = <<"b">>
    /\ assistant_message_id["t2"] < assistant_message_id["t1"]

(***************************************************************************)
(* C37  Every storage call of a turn is made by the holder of the storage  *)
(* mutex: the table is changed (user message saved, last assistant message *)
(* deleted, assistant message saved) and read (history, configuration)     *)
(* only in a step of the slot that holds the guard, a slot is at a storage *)
(* call exactly while it holds the guard, and two slots are never at a     *)
(* storage call at once.                                                   *)
(***************************************************************************)
\* the positions at which a slot waits for the guard
AwaitsLock == {"cmd_lock", "hist_lock", "cfg_lock", "rg_lock", "fin_lock"}

\* slot t makes a storage call in this step
StorageCall(t) == pc[t] \in UnderLock /\ pc'[t] # pc[t]

C37_StorageSerialized ==
    /\ [](/\ lock \in Tasks \cup {"free"}
          /\ \A t \in Tasks : lock = t <=> pc[t] \in UnderLock
          /\ \A t, u \in Tasks :
                 pc[t] \in UnderLock /\ pc[u] \in UnderLock => t = u)
    /\ [][/\ storage' # storage =>
                \E t \in Tasks : lock = t /\ StorageCall(t)
          /\ \A t \in Tasks :
                 /\ messages'[t] # messages[t] => lock = t /\ StorageCall(t)
                 /\ StorageCall(t) =>
                        /\ lock = t
                        /\ \A u \in Tasks \ {t} : pc'[u] = pc[u]
                 /\ pc[t] \in AwaitsLock /\ pc'[t] # pc[t] =>
                        lock = "free" /\ lock' = t]_vars

C37_Witness ==
    /\ lock = "t2" /\ pc["t2"] = "fin_save" /\ full_content["t2"] = <<"b">>
    /\ pc["t1"] = "fin_lock" /\ full_content["t1"] = <<"a">>
    /\ Len(storage) = 2

(***************************************************************************)
(* C38  cancelled_streams is tested only when delta_stream has yielded an  *)
(* item.  When the stream closes while the session's id is in the map, the *)
(* loop ends as completed without a test, and the entry stays; an entry    *)
(* that is in the map once the session has left its loop, whenever it was  *)
(* inserted, is in the map for ever, and the session's outcome is not      *)
(* changed by it.  Entries leave the map only at the break of a loop.      *)
(***************************************************************************)
C38_UnobservedMarkStays ==
    /\ [][\A t \in Tasks :
             /\ pc[t] # "check" /\ pc'[t] = "check" =>
                    /\ pc[t] = "map" /\ Passes(MapEvent(frame[t]))
                    /\ item'[t] = MapEvent(frame[t])
             /\ pc[t] # "remove" /\ pc'[t] = "remove" =>
                    pc[t] = "check" /\ item[t] # NoItem
             /\ pc[t] = "next" /\ Marked(t) /\ LeftLoop(t)' =>
                    /\ outcome'[t] = "completed"
                    /\ Marked(t)'
                    /\ cancelled_streams' = cancelled_streams]_vars
    /\ [][cancelled_streams' # cancelled_streams =>
             \/ pc' = pc /\ cancelled_streams \subseteq cancelled_streams'
             \/ \E t \in Tasks :
                    /\ pc[t] = "remove" /\ pc'[t] = AfterLoop(t)
                    /\ cancelled_streams' =
                           cancelled_streams \ {assistant_message_id[t]}]_vars
    /\ \A t \in Tasks :
           \A o \in {"completed", "errored", "cancelled"} :
               [](Marked(t) /\ outcome[t] = o =>
                     [](Marked(t) /\ outcome[t] = o))

C38_Witness ==
    \E t \in Tasks :
        /\ Finished(t) /\ outcome[t] = "completed" /\ Marked(t)
        /\ Len(ChunkEvents(t)) = 1 /\ sent = 1
        /\ saved[t] = "ok" /\ RowsOf(t)[1].content = full_content[t]

(***************************************************************************)
(* C39  The storage mutex does not deadlock and is not held for ever: a    *)
(* slot that requests the guard does not hold it; a holder's step either   *)
(* releases the guard or is the first of the two storage steps of          *)
(* regenerate_last_response, so the guard is released after at most two    *)
(* steps, on the error returns as well; and, when the slots at the mutex   *)
(* are scheduled fairly, every holder releases the guard and every request *)
(* is granted, whatever the streams of the other turn do.                  *)
(***************************************************************************)
C39_LockAlwaysGranted ==
    /\ [](\A t \in Tasks : pc[t] \in AwaitsLock => lock # t)
    /\ [][\A t \in Tasks :
             /\ lock = t /\ pc'[t] # pc[t] =>
                    \/ lock' = "free"
                    \/ pc[t] = "rg_load" /\ pc'[t] = "rg_cfg" /\ lock' = t
             /\ lock = t /\ pc'[t] = pc[t] => lock' = t]_vars
    /\ [](\A t \in Tasks :
             pc[t] \in {"failed", "exited", "done", "rejected", "aborted"}
                 => lock # t)
    /\ \A t \in Tasks : (lock = t) ~> (lock # t)
    /\ \A t \in Tasks : (pc[t] \in AwaitsLock) ~> (lock = t)

C39_Witness ==
    /\ lock = "t1" /\ pc["t1"] = "fin_save"
    /\ pc["t2"] = "next" /\ Len(ChunkEvents("t2")) = 1
    /\ Len(ChunkEvents("t1")) = 1

(***************************************************************************)
(* C40  A command that rejects its input returns Err and changes nothing.  *)
(* send_message and regenerate_last_response with a conversation id that   *)
(* is not a UUID return Err at once: no row is written or deleted, no id   *)
(* is allocated, the mutex is not taken, no event is emitted, and no task  *)
(* ever runs.  regenerate_last_response on a conversation without          *)
(* assistant message returns Err after the load: the table is as it was,   *)
(* the guard is released, and no task ever runs.  stop_generation with a   *)
(* text that is not a UUID returns Err and leaves the whole state,         *)
(* cancelled_streams included, as it was.                                  *)
(***************************************************************************)
\* what stop_generation returns
StopReturn(message_id) == IF parse_str(message_id).ok THEN "ok" ELSE "err"

\* what a slot's task would have written had it been started
NoTaskRan(t) ==
    /\ api_messages[t] = << >>
    /\ assistant_message_id[t] = NilUuid
    /\ events[t] = << >>
    /\ outcome[t] = "pending" /\ saved[t] = "none"

\* the conversation the slot's command was invoked on has no assistant row
NoAssistantRow(t) == \A i \in 1..Len(ConvRows(t)) : ConvRows(t)[i].role # "assistant"

C40_RejectedInputChangesNothing ==
    /\ [][\A t \in Tasks :
             /\ pc[t] = "idle" /\ pc'[t] # "idle" =>
                    (pc'[t] = "rejected" <=> ~parse_str(conversation_id'[t]).ok)
             /\ pc[t] = "idle" /\ pc'[t] = "rejected" =>
                    /\ ret'[t] = "err"
                    /\ UNCHANGED << storage, cancelled_streams, events,
                                    nextId, lock, user_message, messages,
                                    api_messages, assistant_message_id >>
             /\ pc[t] = "rejected" => pc'[t] = "rejected" /\ ret'[t] = "err"
             /\ pc[t] = "rg_load" /\ pc'[t] # "rg_load" /\ NoAssistantRow(t) =>
                    /\ pc'[t] = "failed" /\ ret'[t] = "err"
                    /\ lock = t /\ lock' = "free"
                    /\ UNCHANGED << storage, cancelled_streams, events,
                                    nextId, messages, api_messages,
                                    assistant_message_id >>
             /\ pc[t] = "failed" => pc'[t] = "failed" /\ ret'[t] = "err"]_vars
    /\ [](\A t \in Tasks :
             pc[t] \in {"rejected", "failed"} => ret[t] = "err" /\ NoTaskRan(t))
    /\ [][\A m \in MessageIdInputs :
             StopReturn(m) = "err" /\ StopGeneration(m) => UNCHANGED vars]_vars
    /\ [](\A m \in MessageIdInputs :
             StopReturn(m) = "err" <=> m = BadIdStr)

C40_Witness ==
    \E t, u \in Tasks :
        /\ kind[t] = "regen" /\ pc[t] = "failed" /\ ret[t] = "err"
        /\ NoAssistantRow(t) /\ Len(ConvRows(t)) = 2 /\ Len(storage) = 3
        /\ kind[u] = "send" /\ pc[u] = "rejected" /\ ret[u] = "err"
        /\ lock = "free" /\ cancelled_streams = {UnknownUuid}
        /\ nextId = 4

====
